----------------------------- MODULE TaskProofs -----------------------------
(***************************************************************************)
(* A governed task for any number of tasks, pauses, operators, stops, lost *)
(* calls, restarts of the radar and overlapping handlers: an approval      *)
(* releases one write at most, the verdict on a workflow stands, and a     *)
(* workflow nobody has told of its task's end has been stopped, has lost a *)
(* call, or was lost sight of by the radar.                                *)
(***************************************************************************)
EXTENDS GovernedTask, SequenceTheorems, FiniteSetTheorems, TLAPS

-----------------------------------------------------------------------------
(* Types                                                                   *)

AnyStatus == {"absent", "queued", "running", "awaiting_approval"} \cup Status
CallStage == {"sent", "temporal", "tier", "signal"}
AnyCall ==
  [task : Task, op : {"start", "event", "tool", "complete"}, n : Nat, stage : CallStage,
   waited : BOOLEAN, signal : AnyStatus \cup {None}]

TrackingTypeOK ==
  /\ calls \subseteq AnyCall /\ execWorkflows \subseteq Task
  /\ replies \in [Task -> {None, "started", "refused"}]
  /\ flow \in [Task -> {"none", "open", "completing", "closed", "terminated"}]
  /\ done \in [Task -> BOOLEAN] /\ DOMAIN outcome = Task
  /\ dropped \subseteq Task

Decided == {"approve", "deny"}
Handler ==
  [task : Task, kind : Decided \cup {"stop"}, pause : Nat,
   stage : {"find", "write", "set", "look", "settle"}, id : Nat]
OwnTools == {"read", "external_post", "save_artifact"}

WorkerTypeOK ==
  /\ kit \in Kit /\ (pc # "dead" => Survives(kit))
  /\ queue \in Seq(Task) /\ task \in Task /\ tool \in OwnTools /\ sent \in Nat
  /\ back \in {"goal", "settle"}
  /\ status \in [Task -> AnyStatus]
  /\ cancel \in [Task -> BOOLEAN] /\ finished \in [Task -> BOOLEAN]
  /\ tracked \in [Task -> BOOLEAN]

PauseTypeOK ==
  /\ event \in [Task -> Nat] /\ pauses \in [Task -> Nat]
  /\ decision \in [Task -> Decided \cup {None}]
  /\ handlers \subseteq Handler /\ IsFiniteSet(handlers)
  /\ requests \subseteq Task \X Nat /\ IsFiniteSet(writes)
  /\ approvals \in [Task -> Nat] /\ missed \subseteq Task
  /\ spent \in [Event -> Nat]

TaskTypeOK == TrackingTypeOK /\ WorkerTypeOK /\ PauseTypeOK

-----------------------------------------------------------------------------
(* What an approval is worth: a handler on its way to store it, the pause  *)
(* in which it is stored, the write it has released, or one that has run.  *)
Approving(t) ==
  {h \in handlers : h.task = t /\ h.kind = "approve" /\ h.stage \in {"find", "write"}}
Released(t) ==
  /\ task = t
  /\ \/ pc = "execute" /\ tool # "read"
     \/ pc \in {"parked", "woken"} /\ decision[t] = "approve"
Held(t) == IF Released(t) THEN 1 ELSE 0
Ran(t) == {w \in writes : w[1] = t}

ApprovalsCover ==
  \A t \in Task :
    Cardinality(Ran(t)) + Cardinality(Approving(t)) + Held(t) <= approvals[t]

-----------------------------------------------------------------------------
(* Who tells a workflow of its end: the radar while it keeps the workflow, *)
(* then the one call that has taken it out.                                *)
OneTells ==
  /\ \A c, d \in calls :
       c.stage = "signal" /\ d.stage = "signal" /\ c.task = d.task => c = d
  /\ \A c \in calls : c.stage = "signal" => c.task \notin execWorkflows /\ ~done[c.task]
  /\ \A t \in execWorkflows : ~done[t]
  /\ \A t \in Task : flow[t] = "none" =>
       t \notin execWorkflows /\ ~done[t] /\ \A c \in calls : c.task = t => c.stage # "signal"

-----------------------------------------------------------------------------
(* What has become of the start of a task.                                 *)
Queued(t) == status[t] = "absent" \/ \E i \in DOMAIN queue : queue[i] = t
Idle == pc \in {"idle", "dead"}
Past(t) == finished[t] \/ (task = t /\ ~Idle /\ pc # "starting")

QueuedOnce ==
  /\ \A i, j \in DOMAIN queue : queue[i] = queue[j] => i = j
  /\ \A i \in DOMAIN queue : status[queue[i]] # "absent"
  /\ \A t \in Task : Queued(t) =>
       /\ ~finished[t] /\ flow[t] = "none" /\ (task = t => Idle)
       /\ \A c \in calls : c.task # t

Starts(t) == {c \in calls : c.task = t /\ c.op = "start"}
StartedOnce ==
  /\ \A c \in calls : c.op = "start" => c.stage \in {"sent", "temporal"} /\ flow[c.task] = "none"
  /\ \A c \in calls : c.stage = "temporal" => c.op = "start"
  /\ \A t \in Task : \A c, d \in Starts(t) : c = d

(* A task none of whose calls was missed knows what its start has come to, *)
(* and has told the radar of its end, unless it was stopped.               *)
TellsItsEnd(t) ==
  \/ flow[t] = "none" \/ t \notin execWorkflows
  \/ \E c \in calls : c.task = t /\ c.op = "complete" /\ c.stage = "sent"
Working(t) == task = t /\ ~Idle /\ pc \notin {"starting", "finished"}
Ended(t) == finished[t] \/ (task = t /\ pc = "finished")
InformedOf(t) ==
  /\ \A c \in calls : c.task = t => c.waited
  /\ Starts(t) = {} => flow[t] = "none" \/ replies[t] = "started"
  /\ Past(t) => Starts(t) = {}
  /\ Working(t) /\ replies[t] = "started" => tracked[t]
  /\ Ended(t) /\ ~cancel[t] => TellsItsEnd(t)
Informed == \A t \in (Task \ missed) \ dropped : InformedOf(t)

(* A workflow that is open and has not been told will be, unless the radar *)
(* has lost sight of it.                                                   *)
OpenIsKept ==
  \A t \in Task : flow[t] = "open" /\ ~done[t] =>
    \/ t \in execWorkflows \/ t \in dropped
    \/ \E c \in calls : c.task = t /\ c.stage = "signal"

TaskInv ==
  TaskTypeOK /\ ApprovalsCover /\ OneTells /\ QueuedOnce /\ StartedOnce /\ Informed /\ OpenIsKept

-----------------------------------------------------------------------------
(* The calls                                                               *)

(* A call the worker sends, or sends not.                                  *)
SendsOf(ops) ==
  \/ UNCHANGED calls
  \/ \E op \in ops, signal \in AnyStatus \cup {None} : Send(op, signal)

LEMMA StartTypes == Init => TaskTypeOK
<1> SUFFICES ASSUME Init PROVE TaskTypeOK
  OBVIOUS
<1> USE DEF Init
<1>1. task \in Task
  BY TaskAssumption
<1>2. TrackingTypeOK
  BY DEF InitTracking, TrackingTypeOK
<1>3. WorkerTypeOK
  BY <1>1, KitsAssumption DEF WorkerTypeOK, AnyStatus, OwnTools
<1>4. PauseTypeOK
  BY FS_EmptySet DEF PauseTypeOK
<1>5. QED BY <1>2, <1>3, <1>4 DEF TaskTypeOK

(* What the radar makes of a call is a call of the same task.              *)
LEMMA CallMoves ==
  ASSUME NEW c \in AnyCall, NEW stage \in CallStage, NEW signal \in AnyStatus \cup {None}
  PROVE  LET next == [c EXCEPT !.stage = stage, !.signal = signal]
         IN /\ next \in AnyCall /\ next.stage = stage /\ next.signal = signal
            /\ next.task = c.task /\ next.op = c.op /\ next.waited = c.waited
  BY DEF AnyCall

LEMMA CallGivenUp ==
  ASSUME NEW c \in AnyCall
  PROVE  LET next == [c EXCEPT !.waited = FALSE]
         IN next \in AnyCall /\ next.stage = c.stage /\ next.task = c.task /\ next.op = c.op
  BY DEF AnyCall

LEMMA SendTypes ==
  ASSUME TaskTypeOK, NEW op \in {"start", "event", "tool", "complete"},
         NEW t \in Task, NEW n \in Nat, NEW signal \in AnyStatus \cup {None}
  PROVE  /\ Request(t, op, n, signal) \in AnyCall
         /\ Request(t, op, n, signal).stage = "sent" /\ Request(t, op, n, signal).waited
         /\ Request(t, op, n, signal).task = t /\ Request(t, op, n, signal).op = op
  BY DEF Request, AnyCall, CallStage

LEMMA RadarTypes ==
  ASSUME TrackingTypeOK, NEW c \in calls, RadarStep(c)
  PROVE  TrackingTypeOK'
<1> USE DEF TrackingTypeOK
<1>1. c \in AnyCall /\ c.task \in Task /\ c.signal \in AnyStatus \cup {None}
  BY DEF AnyCall
<1>2. ASSUME NEW stage \in CallStage, NEW signal \in AnyStatus \cup {None}, Becomes(c, stage, signal)
      PROVE  calls' \subseteq AnyCall
  <2> DEFINE next == [c EXCEPT !.stage = stage, !.signal = signal]
  <2>1. next \in AnyCall
    BY <1>1, <1>2, CallMoves
  <2>2. calls' = (calls \ {c}) \cup {next}
    BY <1>2 DEF Becomes
  <2> HIDE DEF next
  <2>3. QED BY <2>1, <2>2
<1>3. ASSUME Answered(c)
      PROVE  calls' \subseteq AnyCall
  BY <1>3 DEF Answered
<1>4. ASSUME NEW reply \in {"started", "refused"}, Told(c, reply)
      PROVE  replies' \in [Task -> {None, "started", "refused"}]
  BY <1>4 DEF Told
<1>5. ASSUME NEW cause, Block(c, cause)
      PROVE  TrackingTypeOK'
  <2>1. calls' \subseteq AnyCall
    <3>1. "signal" \in CallStage /\ "blocked" \in AnyStatus \cup {None}
      BY SMT DEF CallStage, AnyStatus, Status
    <3>2. Becomes(c, "signal", "blocked") \/ Answered(c)
      BY <1>5 DEF Block
    <3>3. QED BY <1>2, <1>3, <3>1, <3>2
  <2>2. QED BY <1>5, <2>1 DEF Block, workflowVars
<1>6. CASE RefuseStart(c) \/ StartFails(c)
  BY <1>3, <1>4, <1>6 DEF RefuseStart, StartFails, workflowVars
<1>7. CASE AwaitTemporal(c) \/ AwaitTier(c)
  BY <1>2, <1>7 DEF AwaitTemporal, AwaitTier, workflowVars, CallStage
<1>8. CASE StartWorkflow(c) \/ StartUnheard(c)
  BY <1>1, <1>3, <1>4, <1>8 DEF StartWorkflow, StartUnheard
<1>9. CASE CompleteExecution(c)
  <2>1. calls' \subseteq AnyCall
    BY <1>1, <1>2, <1>3, <1>9 DEF CompleteExecution, CallStage
  <2>2. QED BY <1>9, <2>1 DEF CompleteExecution, workflowVars
<1>10. CASE Finish(c) \/ FinishFails(c)
  BY <1>1, <1>3, <1>10 DEF Finish, FinishFails, workflowVars
<1>11. CASE ForwardEvent(c)
  BY <1>3, <1>11 DEF ForwardEvent, Forward, workflowVars
<1>12. QED
  BY <1>5, <1>6, <1>7, <1>8, <1>9, <1>10, <1>11
  DEF RadarStep, GuardVetoes, TierBlocks, BudgetBlocks

(* What the end of the radar's process leaves.                             *)
LEMMA RestartTypes ==
  ASSUME TrackingTypeOK, RestartTracking
  PROVE  TrackingTypeOK'
<1>1. PICK begun \in SUBSET Starting :
        /\ calls' = {} /\ execWorkflows' = {}
        /\ flow' = [t \in Task |-> IF t \in begun THEN "open" ELSE flow[t]]
        /\ dropped' = dropped \cup execWorkflows \cup Telling \cup begun
        /\ UNCHANGED <<replies, done, outcome>>
  BY DEF RestartTracking
<1>2. Starting \subseteq Task /\ Telling \subseteq Task
  BY DEF Starting, Telling, TrackingTypeOK, AnyCall
<1>3. QED BY <1>1, <1>2 DEF TrackingTypeOK

(* The calls of the worker thread.                                         *)
LEMMA WorkerCalls ==
  ASSUME TaskTypeOK, WorkerStep
  PROVE  /\ UNCHANGED <<radarVars, kit, cancel>>
         /\ \/ TakeTask
            \/ /\ UNCHANGED queue
               /\ SendsOf({"event", "tool", "complete"})
<1> USE DEF TaskTypeOK
<1>1. status[task] \in AnyStatus \cup {None} /\ None \in AnyStatus \cup {None}
  BY DEF WorkerTypeOK
<1>2. /\ Emit("event") => SendsOf({"event", "tool", "complete"})
      /\ Emit("tool") => SendsOf({"event", "tool", "complete"})
  BY <1>1 DEF Emit, SendsOf
<1>3. \A s \in AnyStatus : FinishWorkflow(s) => SendsOf({"event", "tool", "complete"})
  BY <1>1 DEF FinishWorkflow, SendsOf
<1>4. CASE TakeTask
  BY <1>4 DEF TakeTask
<1>5. CASE BeginGoal
  BY <1>1, <1>5 DEF BeginGoal, SendsOf, taskVars
<1>6. CASE \/ \E name \in GoalTools : GoalCallsTool(name)
           \/ AnnouncePause \/ RequestApproval \/ Wake \/ Resume
           \/ CheckStop \/ SettleStatus \/ EndTask
  <2>1. UNCHANGED <<radarVars, kit, queue, cancel, calls>>
    BY <1>6
    DEF GoalCallsTool, AnnouncePause, RequestApproval, Wake, Resume, CheckStop, SettleStatus,
        EndTask, trackingVars, radarVars, workflowVars, taskVars
  <2>2. QED BY <2>1 DEF SendsOf
<1>7. CASE GoalReturns \/ Synthesize
  BY <1>2, <1>7 DEF GoalReturns, Synthesize, taskVars
<1>8. ASSUME NEW result \in ToolResults(kit), ExecuteTool(result)
      PROVE  /\ UNCHANGED <<radarVars, kit, cancel>>
             /\ UNCHANGED queue /\ SendsOf({"event", "tool", "complete"})
  <2>1. UNCHANGED <<radarVars, kit, cancel, queue>>
    BY <1>8 DEF ExecuteTool
  <2>2. UNCHANGED calls \/ Emit("tool")
    BY <1>8 DEF ExecuteTool
  <2>3. QED BY <1>2, <2>1, <2>2 DEF SendsOf
<1>9. CASE GoalRaises
  <2>1. "failed" \in AnyStatus
    BY DEF AnyStatus, Status
  <2>2. QED BY <1>3, <1>9, <2>1 DEF GoalRaises
<1>10. CASE CompleteTask
  <2>1. status[task] \in AnyStatus
    BY DEF WorkerTypeOK
  <2>2. SendsOf({"event", "tool", "complete"})
    <3>1. UNCHANGED calls \/ FinishWorkflow(status[task])
      BY <1>10 DEF CompleteTask
    <3>2. QED BY <1>3, <2>1, <3>1 DEF SendsOf
  <2>3. QED BY <1>10, <2>2 DEF CompleteTask, taskVars
<1>11. QED BY <1>4, <1>5, <1>6, <1>7, <1>8, <1>9, <1>10 DEF WorkerStep

-----------------------------------------------------------------------------
(* The types hold.                                                         *)

LEMMA HeadOfQueue ==
  ASSUME WorkerTypeOK, queue # <<>>
  PROVE  /\ Head(queue) \in Task /\ Tail(queue) \in Seq(Task)
         /\ 1 \in DOMAIN queue /\ Head(queue) = queue[1]
  BY HeadTailProperties DEF WorkerTypeOK

LEMMA TrackingStep ==
  ASSUME TaskTypeOK, [Next]_vars
  PROVE  TrackingTypeOK'
<1>1. TrackingTypeOK /\ WorkerTypeOK
  BY DEF TaskTypeOK
<1>2. CASE UNCHANGED trackingVars
  BY <1>1, <1>2 DEF trackingVars, TrackingTypeOK
<1>3. CASE WorkerStep
  <2>1. UNCHANGED <<replies, execWorkflows, flow, done, outcome, dropped>>
    BY <1>3, WorkerCalls DEF radarVars, workflowVars
  <2>2. calls' \subseteq AnyCall
    <3>1. CASE TakeTask
      <4>1. Head(queue) \in Task
        BY <1>1, <3>1, HeadOfQueue DEF TakeTask
      <4>2. Request(Head(queue), "start", 1, None) \in AnyCall
        BY <4>1, SendTypes
      <4>3. calls' = calls \cup {Request(Head(queue), "start", 1, None)}
        BY <3>1 DEF TakeTask
      <4>4. QED BY <1>1, <4>2, <4>3 DEF TrackingTypeOK
    <3>2. ASSUME NEW op \in {"event", "tool", "complete"}, NEW signal \in AnyStatus \cup {None},
                 Send(op, signal)
          PROVE  calls' \subseteq AnyCall
      <4>1. Request(task, op, sent + 1, signal) \in AnyCall
        BY <1>1, SendTypes DEF WorkerTypeOK
      <4>2. QED BY <1>1, <3>2, <4>1 DEF Send, TrackingTypeOK
    <3>3. CASE UNCHANGED calls
      BY <1>1, <3>3 DEF TrackingTypeOK
    <3>4. QED BY <1>3, <3>1, <3>2, <3>3, WorkerCalls DEF SendsOf
  <2>3. QED BY <1>1, <2>1, <2>2 DEF TrackingTypeOK
<1>4. ASSUME NEW c \in calls, GiveUp(c)
      PROVE  TrackingTypeOK'
  <2>1. [c EXCEPT !.waited = FALSE] \in AnyCall
    BY <1>1, CallGivenUp DEF TrackingTypeOK
  <2>2. QED BY <1>1, <1>4, <2>1 DEF GiveUp, TrackingTypeOK, radarVars, workflowVars
<1>5. ASSUME NEW c \in calls, LoseCall(c)
      PROVE  TrackingTypeOK'
  BY <1>1, <1>5 DEF LoseCall, TrackingTypeOK, radarVars, workflowVars
<1>6. ASSUME NEW c \in calls, RadarStep(c)
      PROVE  TrackingTypeOK'
  BY <1>1, <1>6, RadarTypes
<1>7. CASE Temporal
  BY <1>1, <1>7 DEF Temporal, SeeDone, IdleTimeout, WrapUp, CloseWorkflow, TrackingTypeOK
<1>8. ASSUME NEW t \in Task, StopTask(t)
      PROVE  TrackingTypeOK'
  BY <1>1, <1>8 DEF StopTask, TerminateWorkflow, TrackingTypeOK
<1>9. CASE User
  BY <1>2, <1>8, <1>9 DEF User, SubmitTask, ReadRecord, ShowAnswer
<1>10. CASE Operator
  BY <1>2, <1>10 DEF Operator, DecideApproval, ConsoleDecides
<1>11. CASE Handlers
  BY <1>2, <1>11
  DEF Handlers, HandlerStep, FindEvent, WriteDecision, SetEvent, LookAtStatus, SettleCanceled,
      handlerFrame
<1>12. CASE UNCHANGED vars
  BY <1>2, <1>12 DEF vars
<1>13. CASE RestartRadar
  BY <1>1, <1>13, RestartTypes DEF RestartRadar
<1>14. QED
  BY <1>3, <1>4, <1>5, <1>6, <1>7, <1>9, <1>10, <1>11, <1>12, <1>13 DEF Next, Radar, Fault

LEMMA WorkerTypeStep ==
  ASSUME TaskTypeOK, [Next]_vars
  PROVE  WorkerTypeOK'
<1> USE DEF WorkerTypeOK
<1>1. /\ WorkerTypeOK /\ replies \in [Task -> {None, "started", "refused"}]
      /\ \A h \in handlers : h.task \in Task
  BY DEF TaskTypeOK, TrackingTypeOK, PauseTypeOK, Handler
<1>2. CASE UNCHANGED <<kit, queue, taskVars, workerVars>>
  BY <1>1, <1>2 DEF taskVars, workerVars
<1>3. {"queued", "running", "awaiting_approval", "done", "blocked", "failed", "canceled"}
        \subseteq AnyStatus
  BY DEF AnyStatus, Status
<1>4. CASE TakeTask
  BY <1>1, <1>3, <1>4, HeadOfQueue DEF TakeTask
<1>5. CASE BeginGoal \/ GoalReturns \/ Synthesize
  <2>1. tracked' \in [Task -> BOOLEAN]
    <3>1. CASE BeginGoal
      <4>1. \E b \in BOOLEAN : tracked' = [tracked EXCEPT ![task] = b]
        BY <3>1, Zenon DEF BeginGoal
      <4>2. QED BY <1>1, <4>1
    <3>2. CASE GoalReturns \/ Synthesize
      BY <1>1, <3>2 DEF GoalReturns, Synthesize
    <3>3. QED BY <1>5, <3>1, <3>2
  <2>2. sent' \in Nat
    BY <1>1, <1>5 DEF BeginGoal, GoalReturns, Synthesize, Emit, Send
  <2>3. UNCHANGED <<kit, queue, status, cancel, finished, task, tool, back>> /\ pc # "dead"
    BY <1>5 DEF BeginGoal, GoalReturns, Synthesize, Advances, taskVars
  <2>4. QED BY <1>1, <2>1, <2>2, <2>3
<1>6. ASSUME NEW name \in GoalTools, GoalCallsTool(name)
      PROVE  WorkerTypeOK'
  BY <1>1, <1>6, GoalToolsAssumption DEF GoalCallsTool, Calls, taskVars, OwnTools
<1>7. CASE AnnouncePause \/ Wake
  BY <1>1, <1>7 DEF AnnouncePause, Wake, taskVars
<1>8. CASE RequestApproval \/ Resume \/ SettleStatus
  BY <1>1, <1>3, <1>8 DEF RequestApproval, Resume, SettleStatus, Advances
<1>9. ASSUME NEW result \in ToolResults(kit), ExecuteTool(result)
      PROVE  WorkerTypeOK'
  BY <1>1, <1>9 DEF ExecuteTool, Emit, Send
<1>10. CASE CheckStop
  BY <1>1, <1>3, <1>10 DEF CheckStop, Calls, OwnTools
<1>11. CASE CompleteTask \/ GoalRaises
  <2>1. tracked' \in [Task -> BOOLEAN] /\ sent' \in Nat
    <3>1. \A s : FinishWorkflow(s) => tracked' \in [Task -> BOOLEAN] /\ sent' \in Nat
      BY <1>1 DEF FinishWorkflow, Send
    <3>2. (\E s : FinishWorkflow(s)) \/ UNCHANGED <<tracked, sent>>
      BY <1>11 DEF CompleteTask, GoalRaises
    <3>3. QED BY <1>1, <3>1, <3>2
  <2>2. status' \in [Task -> AnyStatus]
    BY <1>1, <1>3, <1>11 DEF CompleteTask, GoalRaises, taskVars
  <2>3. UNCHANGED <<kit, queue, cancel, finished, task, tool, back>> /\ pc # "dead"
    BY <1>11 DEF CompleteTask, GoalRaises, Advances, taskVars
  <2>4. QED BY <1>1, <2>1, <2>2, <2>3
<1>12. CASE EndTask
  BY <1>1, <1>12 DEF EndTask, Advances, OwnTools
<1>13. CASE Operator \/ Temporal \/ Radar
  BY <1>2, <1>13 DEF Operator, DecideApproval, ConsoleDecides, Temporal, Radar, kitVars
<1>14. CASE Fault
  BY <1>2, <1>14 DEF Fault, RestartRadar, GiveUp, LoseCall
<1>15. ASSUME NEW t \in Task, SubmitTask(t)
       PROVE  WorkerTypeOK'
  BY <1>1, <1>3, <1>15 DEF SubmitTask, workerVars
<1>16. ASSUME NEW t \in Task, StopTask(t) \/ ReadRecord(t) \/ ShowAnswer(t)
       PROVE  WorkerTypeOK'
  BY <1>2, <1>16 DEF StopTask, ReadRecord, ShowAnswer
<1>17. ASSUME NEW h \in handlers, HandlerStep(h)
       PROVE  WorkerTypeOK'
  <2>1. UNCHANGED <<kit, queue, finished, workerVars>>
    BY <1>17
    DEF HandlerStep, FindEvent, WriteDecision, SetEvent, LookAtStatus, SettleCanceled, handlerFrame
  <2>2. status' \in [Task -> AnyStatus]
    BY <1>1, <1>3, <1>17
    DEF HandlerStep, FindEvent, WriteDecision, SetEvent, LookAtStatus, SettleCanceled
  <2>3. cancel' \in [Task -> BOOLEAN]
    <3>1. CASE FindEvent(h)
      <4>1. \E b \in BOOLEAN : cancel' = [cancel EXCEPT ![h.task] = b]
        BY <1>1, <3>1, Zenon DEF FindEvent
      <4>2. QED BY <1>1, <4>1
    <3>2. CASE ~FindEvent(h)
      BY <1>1, <1>17, <3>2 DEF HandlerStep, WriteDecision, SetEvent, LookAtStatus, SettleCanceled
    <3>3. QED BY <3>1, <3>2
  <2>4. QED BY <1>1, <2>1, <2>2, <2>3 DEF workerVars
<1>18. CASE UNCHANGED vars
  BY <1>2, <1>18 DEF vars
<1>19. QED
  BY <1>4, <1>5, <1>6, <1>7, <1>8, <1>9, <1>10, <1>11, <1>12, <1>13, <1>14, <1>15, <1>16, <1>17, <1>18
  DEF Next, WorkerStep, User, Handlers

LEMMA PauseTypeStep ==
  ASSUME TaskTypeOK, [Next]_vars
  PROVE  PauseTypeOK'
<1> USE DEF PauseTypeOK
<1>1. PauseTypeOK /\ task \in Task /\ \A c \in calls : c.task \in Task
  BY DEF TaskTypeOK, WorkerTypeOK, TrackingTypeOK, AnyCall
<1>2. CASE UNCHANGED <<event, pauses, decision, handlers, requests, writes, approvals, missed, spent>>
  BY <1>1, <1>2
<1>3. \A e \in Event : Spend(e) => spent' \in [Event -> Nat]
  BY <1>1 DEF Spend
<1>4. ASSUME NEW name \in GoalTools, GoalCallsTool(name)
      PROVE  PauseTypeOK'
  BY <1>1, <1>3, <1>4 DEF GoalCallsTool, pauseVars, outerVars, Event
<1>5. CASE AnnouncePause
  BY <1>1, <1>5 DEF AnnouncePause, outerVars, historyVars
<1>6. CASE RequestApproval
  BY <1>1, <1>6 DEF RequestApproval, CreateApproval, ApprovalRow, historyVars
<1>7. CASE Resume
  BY <1>1, <1>7 DEF Resume, outerVars, historyVars
<1>8. ASSUME NEW result \in ToolResults(kit), ExecuteTool(result)
      PROVE  PauseTypeOK'
  <2>1. IsFiniteSet(writes \cup {<<task, pauses[task]>>})
    BY <1>1, FS_AddElement
  <2>2. IsFiniteSet(writes')
    BY <1>1, <1>8, <2>1 DEF ExecuteTool
  <2>3. QED BY <1>1, <1>8, <2>2 DEF ExecuteTool, pauseVars, outerVars
<1>9. CASE \/ TakeTask \/ BeginGoal \/ Wake \/ GoalReturns \/ GoalRaises \/ Synthesize
           \/ CheckStop \/ SettleStatus \/ CompleteTask \/ EndTask
  BY <1>2, <1>9
  DEF TakeTask, BeginGoal, Wake, GoalReturns, GoalRaises, Synthesize, CheckStop, SettleStatus,
      CompleteTask, EndTask, pauseVars, outerVars, historyVars
<1>10. CASE Temporal \/ Radar
  BY <1>2, <1>10 DEF Temporal, Radar, kitVars, pauseVars, outerVars, historyVars
<1>11. ASSUME NEW c \in calls, GiveUp(c) \/ LoseCall(c)
       PROVE  PauseTypeOK'
  BY <1>1, <1>3, <1>11 DEF GiveUp, LoseCall, Event, pauseVars, outerVars
<1>12. ASSUME NEW t \in Task, NEW kind \in Decided \cup {"stop"}, HandlerStart(t, kind)
       PROVE  handlers' \subseteq Handler /\ IsFiniteSet(handlers')
  <2> DEFINE h == [task |-> t, kind |-> kind, pause |-> 0, stage |-> "find",
                   id |-> spent["verdict"] + spent["stop"]]
  <2>1. spent["verdict"] + spent["stop"] \in Nat
    BY <1>1 DEF Event
  <2>2. h \in Handler
    BY <2>1 DEF Handler
  <2>3. handlers' = handlers \cup {h}
    BY <1>12 DEF HandlerStart
  <2> HIDE DEF h
  <2>4. QED BY <1>1, <2>2, <2>3, FS_AddElement
<1>13. ASSUME NEW t \in Task, NEW answer \in Decided, Verdict(t, answer), UNCHANGED pauseVars,
              requests' \subseteq requests, UNCHANGED <<writes, missed>>
       PROVE  PauseTypeOK'
  <2>1. handlers' \subseteq Handler /\ IsFiniteSet(handlers')
    BY <1>12, <1>13 DEF Verdict
  <2>2. approvals' \in [Task -> Nat] /\ spent' \in [Event -> Nat]
    BY <1>1, <1>3, <1>13 DEF Verdict, Event
  <2>3. QED BY <1>1, <1>13, <2>1, <2>2 DEF pauseVars
<1>14. CASE Operator
  <2>1. ASSUME NEW r \in requests, NEW answer \in Decided, DecideApproval(r, answer)
        PROVE  PauseTypeOK'
    <3>1. r[1] \in Task
      BY <1>1
    <3>2. Verdict(r[1], answer) /\ requests' \subseteq requests /\ UNCHANGED <<pauseVars, writes, missed>>
      BY <2>1 DEF DecideApproval, SettleApproval
    <3>3. QED BY <1>13, <3>1, <3>2
  <2>2. ASSUME NEW t \in Task, NEW answer \in Decided, ConsoleDecides(t, answer)
        PROVE  PauseTypeOK'
    BY <1>13, <2>2 DEF ConsoleDecides
  <2>3. QED BY <1>14, <2>1, <2>2 DEF Operator, Decided
<1>15. ASSUME NEW t \in Task, StopTask(t)
       PROVE  PauseTypeOK'
  <2>1. handlers' \subseteq Handler /\ IsFiniteSet(handlers')
    BY <1>1, <1>12, <1>15 DEF StopTask
  <2>2. QED BY <1>1, <1>3, <1>15, <2>1 DEF StopTask, pauseVars, Event
<1>16. ASSUME NEW t \in Task, SubmitTask(t) \/ ReadRecord(t) \/ ShowAnswer(t)
       PROVE  PauseTypeOK'
  BY <1>1, <1>3, <1>16
  DEF SubmitTask, ReadRecord, ShowAnswer, pauseVars, outerVars, historyVars, Event
<1>17. ASSUME NEW h \in handlers, HandlerStep(h)
       PROVE  PauseTypeOK'
  <2>1. h \in Handler /\ h.task \in Task /\ event[h.task] \in Nat
    BY <1>1 DEF Handler
  <2>2. ASSUME NEW next \in Handler, handlers' = (handlers \ {h}) \cup {next}
        PROVE  handlers' \subseteq Handler /\ IsFiniteSet(handlers')
    BY <1>1, <2>2, FS_AddElement, FS_RemoveElement
  <2>3. Returns(h) => handlers' \subseteq Handler /\ IsFiniteSet(handlers')
    BY <1>1, FS_RemoveElement DEF Returns
  <2>4. \A stage \in {"find", "write", "set", "look", "settle"} :
          Moves(h, stage) => handlers' \subseteq Handler /\ IsFiniteSet(handlers')
    <3> SUFFICES ASSUME NEW stage \in {"find", "write", "set", "look", "settle"}, Moves(h, stage)
                 PROVE  handlers' \subseteq Handler /\ IsFiniteSet(handlers')
      OBVIOUS
    <3>1. [h EXCEPT !.stage = stage] \in Handler
      BY <2>1 DEF Handler
    <3>2. QED BY <2>2, <3>1 DEF Moves
  <2>5. [h EXCEPT !.stage = "write", !.pause = event[h.task]] \in Handler
    BY <2>1 DEF Handler
  <2>6. handlers' \subseteq Handler /\ IsFiniteSet(handlers')
    <3>1. \/ Returns(h)
          \/ \E stage \in {"find", "write", "set", "look", "settle"} : Moves(h, stage)
          \/ handlers' = (handlers \ {h}) \cup
                           {[h EXCEPT !.stage = "write", !.pause = event[h.task]]}
      BY <1>17 DEF HandlerStep, FindEvent, WriteDecision, SetEvent, LookAtStatus, SettleCanceled
    <3>2. QED BY <2>2, <2>3, <2>4, <2>5, <3>1
  <2>7. decision' \in [Task -> Decided \cup {None}]
    <3>1. (IF h.kind = "stop" THEN "deny" ELSE h.kind) \in Decided
      BY <2>1 DEF Handler, Decided
    <3>2. QED BY <1>1, <1>17, <3>1
          DEF HandlerStep, FindEvent, WriteDecision, SetEvent, LookAtStatus, SettleCanceled
  <2>8. UNCHANGED <<event, pauses, requests, approvals, historyVars>>
    BY <1>17
    DEF HandlerStep, FindEvent, WriteDecision, SetEvent, LookAtStatus, SettleCanceled, handlerFrame
  <2>9. QED BY <1>1, <2>6, <2>7, <2>8 DEF historyVars
<1>18. CASE UNCHANGED vars
  BY <1>2, <1>18 DEF vars, pauseVars, outerVars, historyVars
<1>19. CASE RestartRadar
  <2>1. {c.task : c \in calls} \subseteq Task
    BY <1>1
  <2>2. missed' \subseteq Task /\ requests' \subseteq Task \X Nat
    BY <1>1, <1>19, <2>1 DEF RestartRadar
  <2>3. spent' \in [Event -> Nat]
    BY <1>3, <1>19 DEF RestartRadar, Event
  <2>4. QED BY <1>1, <1>19, <2>2, <2>3 DEF RestartRadar, pauseVars
<1>20. QED
  BY <1>4, <1>5, <1>6, <1>7, <1>8, <1>9, <1>10, <1>11, <1>14, <1>15, <1>16, <1>17, <1>18, <1>19
  DEF Next, WorkerStep, User, Handlers, Fault

LEMMA TaskTypesHold == ASSUME TaskTypeOK, [Next]_vars PROVE TaskTypeOK'
  BY TrackingStep, WorkerTypeStep, PauseTypeStep DEF TaskTypeOK

-----------------------------------------------------------------------------
(* An approval releases one write.                                         *)

LEMMA Sizes ==
  ASSUME NEW S, IsFiniteSet(S), NEW T, NEW x, NEW y
  PROVE  /\ Cardinality(S) \in Nat
         /\ T \subseteq S \cup {x} => Cardinality(T) \in Nat /\ Cardinality(T) <= Cardinality(S) + 1
         /\ T \subseteq S => Cardinality(T) \in Nat /\ Cardinality(T) <= Cardinality(S)
         /\ x \in S /\ T \subseteq S \ {x} =>
              Cardinality(T) \in Nat /\ Cardinality(T) + 1 <= Cardinality(S)
         /\ x \in S /\ T \subseteq (S \ {x}) \cup {y} =>
              Cardinality(T) \in Nat /\ Cardinality(T) <= Cardinality(S)
<1>1. /\ Cardinality(S) \in Nat
      /\ IsFiniteSet(S \cup {x}) /\ Cardinality(S \cup {x}) <= Cardinality(S) + 1
      /\ IsFiniteSet(S \ {x})
      /\ x \in S => Cardinality(S \ {x}) + 1 = Cardinality(S)
  BY FS_CardinalityType, FS_AddElement, FS_RemoveElement
<1>2. /\ Cardinality(S \ {x}) \in Nat /\ Cardinality(S \cup {x}) \in Nat
      /\ IsFiniteSet((S \ {x}) \cup {y}) /\ Cardinality((S \ {x}) \cup {y}) \in Nat
      /\ Cardinality((S \ {x}) \cup {y}) <= Cardinality(S \ {x}) + 1
  <2>1. Cardinality(S \ {x}) \in Nat /\ Cardinality(S \cup {x}) \in Nat
    BY <1>1, FS_CardinalityType
  <2>2. /\ IsFiniteSet((S \ {x}) \cup {y})
        /\ \/ Cardinality((S \ {x}) \cup {y}) = Cardinality(S \ {x})
           \/ Cardinality((S \ {x}) \cup {y}) = Cardinality(S \ {x}) + 1
    BY <1>1, FS_AddElement
  <2>3. QED BY <2>1, <2>2
<1>3. \A U : IsFiniteSet(U) /\ T \subseteq U =>
               Cardinality(T) \in Nat /\ Cardinality(T) <= Cardinality(U)
  BY FS_Subset, FS_CardinalityType
<1>4. QED BY <1>1, <1>2, <1>3

(* A write pauses in every bundle whose worker runs.                       *)
LEMMA WritesPause ==
  ASSUME WorkerTypeOK, pc # "dead", NEW name \in {"external_post", "save_artifact"}
  PROVE  PausesFor(kit, RiskOf[name])
<1>1. kit \in {"arxiv", "langgraph", "pydanticai"}
  BY DEF WorkerTypeOK, Kit, Survives, LoopOf, Loop, ArxivWorkerLoop, LanggraphWorkerLoop,
         PydanticaiWorkerLoop, CrewaiWorkerLoop, WriteupWorkerLoop, FileinspectorWorkerLoop
<1>2. Writes(kit) = [save_artifact |-> "medium", external_post |-> "high"]
  BY <1>1 DEF Writes, WritesOf, ArxivWrites, LanggraphWrites, PydanticaiWrites
<1>3. RiskOf[name] \in {"medium", "high"}
  BY <1>2 DEF RiskOf
<1>4. CallsOf[kit].risks = {"medium", "high"}
  BY <1>1 DEF CallsOf, Pausing, ArxivCallTool, LanggraphCallTool, PydanticaiCallTool
<1>5. QED BY <1>3, <1>4 DEF PausesFor

(* A step of a handler or of an operator changes one task's account.       *)
LEMMA CoverOf ==
  ASSUME TaskTypeOK, NEW t \in Task
  PROVE  /\ IsFiniteSet(Approving(t)) /\ IsFiniteSet(Ran(t))
         /\ Cardinality(Approving(t)) \in Nat /\ Cardinality(Ran(t)) \in Nat
         /\ Held(t) \in {0, 1} /\ approvals[t] \in Nat
<1>1. Approving(t) \subseteq handlers /\ Ran(t) \subseteq writes
  BY DEF Approving, Ran
<1>2. IsFiniteSet(Approving(t)) /\ IsFiniteSet(Ran(t))
  BY <1>1, FS_Subset DEF TaskTypeOK, PauseTypeOK
<1>3. QED BY <1>2, FS_CardinalityType DEF TaskTypeOK, PauseTypeOK, Held

(* The worker neither answers for itself nor runs a write.                 *)
LEMMA CoverKept ==
  ASSUME ApprovalsCover, UNCHANGED <<handlers, writes, approvals>>, TaskTypeOK,
         \A t \in Task : Released(t)' => Released(t)
  PROVE  ApprovalsCover'
<1> SUFFICES ASSUME NEW t \in Task
             PROVE  Cardinality(Ran(t)') + Cardinality(Approving(t)') + Held(t)' <= approvals'[t]
  BY DEF ApprovalsCover
<1>1. Ran(t)' = Ran(t) /\ Approving(t)' = Approving(t)
  BY DEF Ran, Approving
<1>2. Held(t)' <= Held(t) /\ Held(t)' \in {0, 1}
  BY DEF Held
<1>3. QED BY <1>1, <1>2, CoverOf DEF ApprovalsCover

LEMMA ExecuteCovered ==
  ASSUME TaskTypeOK, ApprovalsCover, NEW result, ExecuteTool(result)
  PROVE  ApprovalsCover'
<1> SUFFICES ASSUME NEW t \in Task
             PROVE  Cardinality(Ran(t)') + Cardinality(Approving(t)') + Held(t)' <= approvals'[t]
  BY DEF ApprovalsCover
<1>1. /\ pc = "execute" /\ pc' \in {"goal", "settle"}
      /\ UNCHANGED <<task, tool, decision, handlers, approvals>>
  BY DEF ExecuteTool, pauseVars, outerVars, TaskTypeOK, WorkerTypeOK
<1>2. Held(t)' = 0 /\ Approving(t)' = Approving(t)
  BY <1>1 DEF Held, Released, Approving
<1>3. CASE t = task /\ tool # "read"
  <2>1. Held(t) = 1
    BY <1>1, <1>3 DEF Held, Released
  <2>2. Ran(t)' \subseteq Ran(t) \cup {<<task, pauses[task]>>}
    BY DEF ExecuteTool, Ran
  <2>3. Cardinality(Ran(t)') \in Nat /\ Cardinality(Ran(t)') <= Cardinality(Ran(t)) + 1
    BY <2>2, CoverOf, Sizes
  <2>4. QED BY <1>1, <1>2, <2>1, <2>3, CoverOf DEF ApprovalsCover
<1>4. CASE ~(t = task /\ tool # "read")
  <2>1. Ran(t)' = Ran(t)
    BY <1>4 DEF ExecuteTool, Ran
  <2>2. QED BY <1>1, <1>2, <2>1, CoverOf DEF ApprovalsCover
<1>5. QED BY <1>3, <1>4

LEMMA VerdictCovered ==
  ASSUME TaskTypeOK, ApprovalsCover, NEW a \in Task, NEW answer \in Decided, Verdict(a, answer),
         UNCHANGED <<writes, task, pc, tool, decision>>
  PROVE  ApprovalsCover'
<1> SUFFICES ASSUME NEW t \in Task
             PROVE  Cardinality(Ran(t)') + Cardinality(Approving(t)') + Held(t)' <= approvals'[t]
  BY DEF ApprovalsCover
<1> DEFINE h == [task |-> a, kind |-> answer, pause |-> 0, stage |-> "find",
                 id |-> spent["verdict"] + spent["stop"]]
<1>1. Ran(t)' = Ran(t) /\ Held(t)' = Held(t)
  BY DEF Ran, Held, Released
<1>2. /\ handlers' = handlers \cup {h} /\ h.task = a /\ h.kind = answer
      /\ approvals' = [approvals EXCEPT ![a] = IF answer = "approve" THEN @ + 1 ELSE @]
  BY DEF Verdict, HandlerStart
<1> HIDE DEF h
<1>3. approvals \in [Task -> Nat]
  BY DEF TaskTypeOK, PauseTypeOK
<1>4. CASE t = a /\ answer = "approve"
  <2>1. Approving(t)' \subseteq Approving(t) \cup {h}
    BY <1>2 DEF Approving
  <2>2. Cardinality(Approving(t)') \in Nat /\ Cardinality(Approving(t)') <= Cardinality(Approving(t)) + 1
    BY <2>1, CoverOf, Sizes
  <2>3. approvals'[t] = approvals[t] + 1
    BY <1>2, <1>3, <1>4
  <2>4. QED BY <1>1, <2>2, <2>3, CoverOf DEF ApprovalsCover
<1>5. CASE ~(t = a /\ answer = "approve")
  <2>1. Approving(t)' = Approving(t) /\ approvals'[t] = approvals[t]
    BY <1>2, <1>3, <1>5 DEF Approving
  <2>2. QED BY <1>1, <2>1, CoverOf DEF ApprovalsCover
<1>6. QED BY <1>4, <1>5

LEMMA HandlerCovered ==
  ASSUME TaskTypeOK, ApprovalsCover, NEW h \in handlers, HandlerStep(h)
  PROVE  ApprovalsCover'
<1> SUFFICES ASSUME NEW t \in Task
             PROVE  Cardinality(Ran(t)') + Cardinality(Approving(t)') + Held(t)' <= approvals'[t]
  BY DEF ApprovalsCover
<1>1. /\ UNCHANGED <<writes, approvals, task, pc, tool>>
      /\ decision \in [Task -> Decided \cup {None}]
      /\ h \in Handler
  BY DEF HandlerStep, FindEvent, WriteDecision, SetEvent, LookAtStatus, SettleCanceled,
         handlerFrame, workerVars, historyVars, TaskTypeOK, PauseTypeOK
<1>2. Ran(t)' = Ran(t)
  BY <1>1 DEF Ran
<1>3. CASE FindEvent(h)
  <2>1. Held(t)' = Held(t)
    BY <1>1, <1>3 DEF FindEvent, Held, Released
  <2>2. /\ h.stage = "find"
        /\ \E y : /\ y.task = h.task /\ y.kind = h.kind
                 /\ handlers' \subseteq (handlers \ {h}) \cup {y}
    <3>1. CASE event[h.task] # 0
      <4> DEFINE y == [h EXCEPT !.stage = "write", !.pause = event[h.task]]
      <4>1. y.task = h.task /\ y.kind = h.kind
        BY <1>1 DEF Handler
      <4>2. handlers' = (handlers \ {h}) \cup {y}
        BY <1>3, <3>1 DEF FindEvent
      <4>3. QED BY <1>3, <4>1, <4>2 DEF FindEvent
    <3>2. CASE event[h.task] = 0
      <4> DEFINE y == [h EXCEPT !.stage = "look"]
      <4>1. y.task = h.task /\ y.kind = h.kind
        BY <1>1 DEF Handler
      <4>2. handlers' \subseteq (handlers \ {h}) \cup {y}
        BY <1>3, <3>2 DEF FindEvent, Moves, Returns
      <4>3. QED BY <1>3, <4>1, <4>2 DEF FindEvent
    <3>3. QED BY <3>1, <3>2
  <2>3. PICK y : /\ y.task = h.task /\ y.kind = h.kind
                 /\ handlers' \subseteq (handlers \ {h}) \cup {y}
    BY <2>2
  <2>4. CASE h \in Approving(t)
    <3>1. Approving(t)' \subseteq (Approving(t) \ {h}) \cup {y}
      BY <2>3 DEF Approving
    <3>2. Cardinality(Approving(t)') \in Nat /\ Cardinality(Approving(t)') <= Cardinality(Approving(t))
      BY <2>4, <3>1, CoverOf, Sizes
    <3>3. QED BY <1>1, <1>2, <2>1, <3>2, CoverOf DEF ApprovalsCover
  <2>5. CASE h \notin Approving(t)
    <3>1. Approving(t)' \subseteq Approving(t)
      BY <2>2, <2>3, <2>5 DEF Approving
    <3>2. Cardinality(Approving(t)') \in Nat /\ Cardinality(Approving(t)') <= Cardinality(Approving(t))
      BY <3>1, CoverOf, Sizes
    <3>3. QED BY <1>1, <1>2, <2>1, <3>2, CoverOf DEF ApprovalsCover
  <2>6. QED BY <2>4, <2>5
<1>4. CASE ~FindEvent(h)
  <2>1. \E y : /\ y.stage \in {"set", "look", "settle"}
               /\ handlers' \subseteq (handlers \ {h}) \cup {y}
    <3>1. \A stage : [h EXCEPT !.stage = stage].stage = stage
      BY <1>1 DEF Handler
    <3>2. \/ Returns(h) \/ Moves(h, "set") \/ Moves(h, "look") \/ Moves(h, "settle")
      BY <1>4 DEF HandlerStep, WriteDecision, SetEvent, LookAtStatus, SettleCanceled
    <3>3. \E stage \in {"set", "look", "settle"} :
            handlers' \subseteq (handlers \ {h}) \cup {[h EXCEPT !.stage = stage]}
      BY <3>2 DEF Returns, Moves
    <3>4. PICK stage \in {"set", "look", "settle"} :
            handlers' \subseteq (handlers \ {h}) \cup {[h EXCEPT !.stage = stage]}
      BY <3>3
    <3> DEFINE moved == [h EXCEPT !.stage = stage]
    <3>5. /\ moved.stage \in {"set", "look", "settle"}
          /\ handlers' \subseteq (handlers \ {h}) \cup {moved}
      BY <3>1, <3>4
    <3> HIDE DEF moved
    <3>6. QED BY <3>5
  <2>2. Approving(t)' \subseteq Approving(t) \ {h}
    BY <2>1 DEF Approving
  <2>3. CASE h \in Approving(t)
    <3>1. Cardinality(Approving(t)') \in Nat /\ Cardinality(Approving(t)') + 1 <= Cardinality(Approving(t))
      BY <2>2, <2>3, CoverOf, Sizes
    <3>2. Held(t)' \in {0, 1}
      BY DEF Held
    <3>3. QED BY <1>1, <1>2, <3>1, <3>2, CoverOf DEF ApprovalsCover
  <2>4. CASE h \notin Approving(t)
    <3>1. Cardinality(Approving(t)') \in Nat /\ Cardinality(Approving(t)') <= Cardinality(Approving(t))
      BY <2>2, CoverOf, Sizes
    <3>2. Released(t)' => Released(t)
      <4>1. decision'[t] = "approve" => decision[t] = "approve"
        <5>1. CASE WriteDecision(h)
          <6>1. h.kind = "approve" => h.task # t
            BY <2>4, <5>1 DEF WriteDecision, Approving
          <6>2. QED BY <1>1, <5>1, <6>1 DEF WriteDecision
        <5>2. CASE ~WriteDecision(h)
          BY <1>4, <5>2 DEF HandlerStep, SetEvent, LookAtStatus, SettleCanceled
        <5>3. QED BY <5>1, <5>2
      <4>2. QED BY <1>1, <4>1 DEF Released
    <3>3. Held(t)' <= Held(t) /\ Held(t)' \in {0, 1}
      BY <3>2 DEF Held
    <3>4. QED BY <1>1, <1>2, <3>1, <3>3, CoverOf DEF ApprovalsCover
  <2>5. QED BY <2>3, <2>4
<1>5. QED BY <1>3, <1>4

LEMMA CoverStart == Init => ApprovalsCover
<1> SUFFICES ASSUME Init, NEW t \in Task
             PROVE  Cardinality(Ran(t)) + Cardinality(Approving(t)) + Held(t) <= approvals[t]
  BY DEF ApprovalsCover
<1>1. Ran(t) = {} /\ Approving(t) = {} /\ Held(t) = 0 /\ approvals[t] = 0
  BY DEF Init, Ran, Approving, Held, Released
<1>2. QED BY <1>1, FS_EmptySet

LEMMA CoverStep ==
  ASSUME TaskTypeOK, ApprovalsCover, [Next]_vars
  PROVE  ApprovalsCover'
<1>1. WorkerTypeOK
  BY DEF TaskTypeOK
<1>2. ASSUME UNCHANGED <<task, handlers, writes, approvals, decision>>,
             pc' \notin {"execute", "parked", "woken"}
      PROVE  ApprovalsCover'
  BY <1>2, CoverKept DEF Released
<1>3. ASSUME UNCHANGED <<pc, tool, task, handlers, writes, approvals, decision>>
      PROVE  ApprovalsCover'
  BY <1>3, CoverKept DEF Released
<1>4. \A name \in OwnTools : \A returnTo : Calls(name, returnTo) /\ pc # "dead" =>
        pc' = "announce" \/ (pc' = "execute" /\ tool' = "read")
  BY <1>1, WritesPause DEF Calls, OwnTools
<1>5. ASSUME NEW name \in GoalTools, GoalCallsTool(name)
      PROVE  ApprovalsCover'
  <2>1. pc' = "announce" \/ (pc' = "execute" /\ tool' = "read")
    BY <1>4, <1>5, GoalToolsAssumption DEF GoalCallsTool, OwnTools
  <2>2. QED BY <1>5, <2>1, CoverKept DEF GoalCallsTool, pauseVars, outerVars, Released
<1>6. CASE CheckStop
  <2>1. \/ pc' \in {"complete", "settle", "announce"} \/ (pc' = "execute" /\ tool' = "read")
    BY <1>4, <1>6 DEF CheckStop, OwnTools
  <2>2. QED BY <1>6, <2>1, CoverKept DEF CheckStop, pauseVars, outerVars, historyVars, Released
<1>7. CASE TakeTask \/ BeginGoal \/ AnnouncePause
  BY <1>7, CoverKept DEF TakeTask, BeginGoal, AnnouncePause, pauseVars, outerVars, historyVars, Released
<1>8. CASE RequestApproval
  <2>1. pc' = "parked" /\ decision'[task] # "approve" /\ UNCHANGED task
    BY <1>1, <1>8 DEF RequestApproval, TaskTypeOK, PauseTypeOK, WorkerTypeOK, None
  <2>2. QED BY <1>8, <2>1, CoverKept DEF RequestApproval, historyVars, Released
<1>9. CASE Wake \/ Resume
  BY <1>1, <1>9, CoverKept
  DEF Wake, Resume, pauseVars, outerVars, historyVars, Released, WorkerTypeOK
<1>10. CASE GoalReturns \/ Synthesize \/ GoalRaises \/ SettleStatus \/ CompleteTask \/ EndTask
  BY <1>2, <1>10
  DEF GoalReturns, Synthesize, GoalRaises, SettleStatus, CompleteTask, EndTask, Advances,
      pauseVars, outerVars, historyVars
<1>11. ASSUME NEW result \in ToolResults(kit), ExecuteTool(result)
       PROVE  ApprovalsCover'
  BY <1>11, ExecuteCovered
<1>12. CASE Radar \/ Temporal
  BY <1>3, <1>12 DEF Radar, Temporal, kitVars, pauseVars, workerVars, outerVars, historyVars
<1>13. CASE Fault
  BY <1>3, <1>13 DEF Fault, RestartRadar, GiveUp, LoseCall, pauseVars, workerVars, outerVars
<1>14. CASE Operator
  <2>1. ASSUME NEW r \in requests, NEW answer \in Decided, DecideApproval(r, answer)
        PROVE  ApprovalsCover'
    <3>1. r[1] \in Task
      BY DEF TaskTypeOK, PauseTypeOK
    <3>2. Verdict(r[1], answer) /\ UNCHANGED <<writes, task, pc, tool, decision>>
      BY <2>1 DEF DecideApproval, pauseVars, workerVars
    <3>3. QED BY <3>1, <3>2, VerdictCovered
  <2>2. ASSUME NEW t \in Task, NEW answer \in Decided, ConsoleDecides(t, answer)
        PROVE  ApprovalsCover'
    BY <2>2, VerdictCovered DEF ConsoleDecides, pauseVars, workerVars
  <2>3. QED BY <1>14, <2>1, <2>2 DEF Operator, Decided
<1>15. ASSUME NEW t \in Task, StopTask(t)
       PROVE  ApprovalsCover'
  <2>1. UNCHANGED <<task, pc, tool, decision, writes, approvals>>
    BY <1>15 DEF StopTask, pauseVars, workerVars
  <2>2. \A u \in Task : Approving(u)' = Approving(u)
    BY <1>15 DEF StopTask, HandlerStart, Approving
  <2>3. \A u \in Task : Ran(u)' = Ran(u) /\ Held(u)' = Held(u)
    BY <2>1 DEF Ran, Held, Released
  <2>4. QED BY <2>1, <2>2, <2>3 DEF ApprovalsCover
<1>16. ASSUME NEW t \in Task, SubmitTask(t) \/ ReadRecord(t) \/ ShowAnswer(t)
       PROVE  ApprovalsCover'
  BY <1>3, <1>16
  DEF SubmitTask, ReadRecord, ShowAnswer, pauseVars, workerVars, outerVars, historyVars
<1>17. CASE Handlers
  BY <1>17, HandlerCovered DEF Handlers
<1>18. CASE UNCHANGED vars
  BY <1>3, <1>18 DEF vars, pauseVars, workerVars, outerVars, historyVars
<1>19. QED
  BY <1>5, <1>6, <1>7, <1>8, <1>9, <1>10, <1>11, <1>12, <1>13, <1>14, <1>15, <1>16, <1>17, <1>18
  DEF Next, WorkerStep, User

-----------------------------------------------------------------------------
(* One call tells a workflow.                                              *)

(* Calls that are not about to tell come and go.                           *)
LEMMA TellersKept ==
  ASSUME OneTells, UNCHANGED done, execWorkflows' \subseteq execWorkflows,
         \A c \in calls' : c.stage = "signal" => c \in calls,
         \A t \in Task : flow'[t] = "none" => flow[t] = "none"
  PROVE  OneTells'
  BY DEF OneTells

(* A call goes on, and stands for the one it was.                          *)
LEMMA TellerGoesOn ==
  ASSUME OneTells, UNCHANGED <<done, execWorkflows, flow>>, NEW c \in calls, NEW next,
         calls' = (calls \ {c}) \cup {next}, next.task = c.task,
         next.stage = "signal" => c.stage = "signal"
  PROVE  OneTells'
  BY DEF OneTells

(* A call takes the workflow out.                                          *)
LEMMA TellerTakesOut ==
  ASSUME OneTells, TrackingTypeOK, UNCHANGED <<done, flow>>, NEW c \in calls, NEW next,
         execWorkflows' = execWorkflows \ {c.task},
         \/ c.task \in execWorkflows /\ calls' = (calls \ {c}) \cup {next} /\ next.task = c.task
         \/ calls' \subseteq calls
  PROVE  OneTells'
<1>1. c.task \in Task
  BY DEF TrackingTypeOK, AnyCall
<1>2. CASE c.task \in execWorkflows /\ calls' = (calls \ {c}) \cup {next} /\ next.task = c.task
  <2>1. /\ \A d \in calls : d.stage = "signal" => d.task # c.task
        /\ ~done[c.task] /\ flow[c.task] # "none"
    BY <1>1, <1>2 DEF OneTells
  <2>2. QED BY <1>1, <1>2, <2>1 DEF OneTells
<1>3. CASE calls' \subseteq calls
  BY <1>3 DEF OneTells
<1>4. QED BY <1>2, <1>3

LEMMA RadarTells ==
  ASSUME OneTells, TrackingTypeOK, NEW c \in calls, RadarStep(c)
  PROVE  OneTells'
<1>1. c.task \in Task /\ c \in AnyCall
  BY DEF TrackingTypeOK, AnyCall
<1>2. ASSUME NEW cause, Block(c, cause)
      PROVE  OneTells'
  <2> DEFINE next == [c EXCEPT !.stage = "signal", !.signal = "blocked"]
  <2>1. next.task = c.task
    BY <1>1 DEF AnyCall
  <2>2. /\ execWorkflows' = execWorkflows \ {c.task} /\ UNCHANGED <<done, flow>>
        /\ \/ c.task \in execWorkflows /\ calls' = (calls \ {c}) \cup {next}
           \/ calls' \subseteq calls
    BY <1>2 DEF Block, Becomes, Answered, workflowVars
  <2> HIDE DEF next
  <2>3. QED BY <2>1, <2>2, TellerTakesOut
<1>3. CASE CompleteExecution(c)
  <2> DEFINE next == [c EXCEPT !.stage = "signal", !.signal = c.signal]
  <2>1. next.task = c.task
    BY <1>1 DEF AnyCall
  <2>2. /\ execWorkflows' = execWorkflows \ {c.task} /\ UNCHANGED <<done, flow>>
        /\ \/ c.task \in execWorkflows /\ calls' = (calls \ {c}) \cup {next}
           \/ calls' \subseteq calls
    BY <1>3 DEF CompleteExecution, Becomes, Answered, workflowVars
  <2> HIDE DEF next
  <2>3. QED BY <2>1, <2>2, TellerTakesOut
<1>4. CASE AwaitTemporal(c) \/ AwaitTier(c)
  <2>1. PICK stage \in {"temporal", "tier"} :
          Becomes(c, stage, None) /\ UNCHANGED <<execWorkflows, done, flow>>
    BY <1>4 DEF AwaitTemporal, AwaitTier, workflowVars
  <2> DEFINE next == [c EXCEPT !.stage = stage, !.signal = None]
  <2>2. next.task = c.task /\ next.stage # "signal"
    BY <1>1 DEF AnyCall
  <2>3. calls' = (calls \ {c}) \cup {next}
    BY <2>1 DEF Becomes
  <2> HIDE DEF next
  <2>4. QED BY <2>1, <2>2, <2>3, TellerGoesOn
<1>5. CASE RefuseStart(c) \/ StartFails(c) \/ ForwardEvent(c) \/ FinishFails(c)
  BY <1>5, TellersKept
  DEF RefuseStart, StartFails, ForwardEvent, Forward, FinishFails, Answered, workflowVars
<1>6. CASE StartWorkflow(c)
  <2>1. /\ c.task \notin execWorkflows /\ ~done[c.task]
        /\ \A d \in calls : d.task = c.task => d.stage # "signal"
    BY <1>1, <1>6 DEF StartWorkflow, OneTells
  <2>2. QED BY <1>1, <1>6, <2>1 DEF StartWorkflow, Answered, OneTells, TrackingTypeOK
<1>7. CASE Finish(c)
  <2>1. c.stage = "signal" /\ c.task \notin execWorkflows /\ flow[c.task] # "none"
    BY <1>1, <1>7 DEF Finish, OneTells
  <2>2. \A d \in calls' : d \in calls /\ (d.stage = "signal" => d.task # c.task)
    BY <1>7, <2>1 DEF Finish, Answered, OneTells
  <2>3. \A t \in Task : t # c.task => done'[t] = done[t]
    BY <1>7 DEF Finish, TrackingTypeOK
  <2>4. UNCHANGED <<execWorkflows, flow>>
    BY <1>7 DEF Finish
  <2>5. \A d \in calls : d.task \in Task
    BY DEF TrackingTypeOK, AnyCall
  <2>6. execWorkflows \subseteq Task
    BY DEF TrackingTypeOK
  <2>7. QED BY <2>1, <2>2, <2>3, <2>4, <2>5, <2>6 DEF OneTells
<1>8. CASE StartUnheard(c)
  <2>1. calls' \subseteq calls /\ UNCHANGED <<done, execWorkflows>>
    BY <1>8 DEF StartUnheard, Answered
  <2>2. \A t \in Task : flow'[t] = "none" => flow[t] = "none"
    BY <1>1, <1>8 DEF StartUnheard, TrackingTypeOK
  <2>3. QED BY <2>1, <2>2, TellersKept
<1>9. QED
  BY <1>2, <1>3, <1>4, <1>5, <1>6, <1>7, <1>8
  DEF RadarStep, GuardVetoes, TierBlocks, BudgetBlocks

(* What the worker sends does not tell anybody yet.                        *)
LEMMA WorkerSends ==
  ASSUME TaskTypeOK, WorkerStep
  PROVE  \A c \in calls' \ calls :
           c \in AnyCall /\ c.stage = "sent" /\ c.waited /\ (c.op = "start" => TakeTask)
<1>1. WorkerTypeOK
  BY DEF TaskTypeOK
<1>2. CASE TakeTask
  <2>1. Head(queue) \in Task
    BY <1>1, <1>2, HeadOfQueue DEF TakeTask
  <2>2. calls' = calls \cup {Request(Head(queue), "start", 1, None)}
    BY <1>2 DEF TakeTask
  <2>3. QED BY <1>2, <2>1, <2>2, SendTypes
<1>3. ASSUME NEW op \in {"event", "tool", "complete"}, NEW signal \in AnyStatus \cup {None},
             Send(op, signal)
      PROVE  \A c \in calls' \ calls :
               c \in AnyCall /\ c.stage = "sent" /\ c.waited /\ (c.op = "start" => TakeTask)
  <2>1. sent + 1 \in Nat /\ task \in Task
    BY <1>1 DEF WorkerTypeOK
  <2>2. /\ Request(task, op, sent + 1, signal) \in AnyCall
        /\ Request(task, op, sent + 1, signal).stage = "sent"
        /\ Request(task, op, sent + 1, signal).waited
        /\ Request(task, op, sent + 1, signal).op = op
    BY <2>1, SendTypes
  <2>3. QED BY <1>3, <2>2 DEF Send
<1>4. CASE UNCHANGED calls
  BY <1>4
<1>5. QED BY <1>2, <1>3, <1>4, WorkerCalls DEF SendsOf

LEMMA TellStep ==
  ASSUME TaskTypeOK, OneTells, [Next]_vars
  PROVE  OneTells'
<1>1. TrackingTypeOK
  BY DEF TaskTypeOK
<1>2. CASE UNCHANGED <<calls, execWorkflows, flow, done>>
  BY <1>2, TellersKept
<1>3. CASE WorkerStep
  <2>1. UNCHANGED <<execWorkflows, flow, done>>
    BY <1>3, WorkerCalls DEF radarVars, workflowVars
  <2>2. \A c \in calls' : c.stage = "signal" => c \in calls
    BY <1>3, WorkerSends
  <2>3. QED BY <2>1, <2>2, TellersKept
<1>4. ASSUME NEW c \in calls, GiveUp(c)
      PROVE  OneTells'
  <2> DEFINE next == [c EXCEPT !.waited = FALSE]
  <2>1. next.task = c.task /\ next.stage = c.stage
    BY <1>1, CallGivenUp DEF TrackingTypeOK
  <2>2. calls' = (calls \ {c}) \cup {next} /\ UNCHANGED <<execWorkflows, flow, done>>
    BY <1>4 DEF GiveUp, radarVars, workflowVars
  <2> HIDE DEF next
  <2>3. QED BY <2>1, <2>2, TellerGoesOn
<1>5. ASSUME NEW c \in calls, LoseCall(c)
      PROVE  OneTells'
  BY <1>5, TellersKept DEF LoseCall, radarVars, workflowVars
<1>6. ASSUME NEW c \in calls, RadarStep(c)
      PROVE  OneTells'
  BY <1>1, <1>6, RadarTells
<1>7. CASE Temporal
  <2>1. \A t \in Task : flow'[t] = "none" => flow[t] = "none"
    BY <1>1, <1>7 DEF Temporal, SeeDone, IdleTimeout, WrapUp, CloseWorkflow, TrackingTypeOK
  <2>2. UNCHANGED <<calls, execWorkflows, done>>
    BY <1>7 DEF Temporal, SeeDone, IdleTimeout, WrapUp, CloseWorkflow
  <2>3. QED BY <2>1, <2>2, TellersKept
<1>8. ASSUME NEW t \in Task, StopTask(t)
      PROVE  OneTells'
  <2>1. \A u \in Task : flow'[u] = "none" => flow[u] = "none"
    BY <1>1, <1>8 DEF StopTask, TerminateWorkflow, TrackingTypeOK
  <2>2. QED BY <1>8, <2>1, TellersKept DEF StopTask
<1>9. CASE User
  BY <1>2, <1>8, <1>9 DEF User, SubmitTask, ReadRecord, ShowAnswer, trackingVars
<1>10. CASE Operator \/ UNCHANGED vars
  BY <1>2, <1>10 DEF Operator, DecideApproval, ConsoleDecides, vars, trackingVars
<1>11. CASE Handlers
  BY <1>2, <1>11
  DEF Handlers, HandlerStep, FindEvent, WriteDecision, SetEvent, LookAtStatus, SettleCanceled,
      handlerFrame, trackingVars
<1>12. CASE RestartRadar
  <2>1. /\ calls' = {} /\ execWorkflows' = {} /\ UNCHANGED done
        /\ \A t \in Task : flow'[t] = "none" => flow[t] = "none"
    BY <1>12 DEF RestartRadar, RestartTracking
  <2>2. QED BY <2>1, TellersKept
<1>13. QED
  BY <1>3, <1>4, <1>5, <1>6, <1>7, <1>9, <1>10, <1>11, <1>12 DEF Next, Radar, Fault

LEMMA TellStart == Init => OneTells
  BY DEF Init, InitTracking, OneTells

LEMMA VerdictStep ==
  ASSUME TaskTypeOK, OneTells, [Next]_vars
  PROVE  \A t \in Task : done[t] => UNCHANGED <<done[t], outcome[t]>>
<1>1. CASE UNCHANGED <<done, outcome>>
  BY <1>1
<1>2. ASSUME NEW c \in calls, Finish(c)
      PROVE  \A t \in Task : done[t] => UNCHANGED <<done[t], outcome[t]>>
  <2>1. ~done[c.task]
    BY <1>2 DEF Finish, OneTells
  <2>2. QED BY <1>2, <2>1 DEF Finish, TaskTypeOK, TrackingTypeOK
<1>3. ASSUME NEW c \in calls, RadarStep(c), ~Finish(c)
      PROVE  UNCHANGED <<done, outcome>>
  BY <1>3
  DEF RadarStep, RefuseStart, AwaitTemporal, StartFails, StartUnheard, StartWorkflow, GuardVetoes,
      AwaitTier, TierBlocks, BudgetBlocks, ForwardEvent, Forward, CompleteExecution, Block,
      FinishFails, workflowVars
<1>4. CASE WorkerStep
  BY <1>1, <1>4, WorkerCalls DEF radarVars, workflowVars
<1>5. CASE Fault \/ Temporal
  BY <1>1, <1>5
  DEF Fault, RestartRadar, RestartTracking, GiveUp, LoseCall, Temporal, SeeDone, IdleTimeout,
      WrapUp, CloseWorkflow, radarVars, workflowVars
<1>6. CASE User \/ Operator \/ UNCHANGED vars
  BY <1>1, <1>6
  DEF User, SubmitTask, StopTask, ReadRecord, ShowAnswer, Operator, DecideApproval, ConsoleDecides,
      vars, trackingVars
<1>7. CASE Handlers
  BY <1>1, <1>7
  DEF Handlers, HandlerStep, FindEvent, WriteDecision, SetEvent, LookAtStatus, SettleCanceled,
      handlerFrame, trackingVars
<1>8. QED BY <1>1, <1>2, <1>3, <1>4, <1>5, <1>6, <1>7 DEF Next, Radar

-----------------------------------------------------------------------------
(* The steps of the worker, and what they leave alone                      *)

LEMMA WorkerFrame ==
  ASSUME TaskTypeOK, WorkerStep, ~TakeTask
  PROVE  /\ ~Idle /\ UNCHANGED <<task, queue, missed>>
         /\ \A t \in Task : status'[t] = "absent" => status[t] = "absent"
         /\ \A t \in Task \ {task} : finished'[t] = finished[t] /\ tracked'[t] = tracked[t]
         /\ \A c \in calls' \ calls : c.task = task
         /\ calls \subseteq calls'
<1>1. WorkerTypeOK
  BY DEF TaskTypeOK
<1>2. (\A c \in calls' \ calls : c.task = task) /\ calls \subseteq calls'
  BY WorkerCalls DEF SendsOf, Send, Request
<1>3. CASE BeginGoal \/ GoalReturns \/ Synthesize \/ AnnouncePause \/ Wake \/ EndTask
  BY <1>1, <1>2, <1>3
  DEF BeginGoal, GoalReturns, Synthesize, AnnouncePause, Wake, EndTask, Advances, Idle,
      WorkerTypeOK, taskVars, historyVars
<1>4. CASE \/ \E name \in GoalTools : GoalCallsTool(name)
           \/ \E result \in ToolResults(kit) : ExecuteTool(result)
  BY <1>1, <1>2, <1>4 DEF GoalCallsTool, ExecuteTool, Idle, WorkerTypeOK, taskVars
<1>5. CASE RequestApproval \/ Resume \/ CheckStop \/ SettleStatus
  BY <1>1, <1>2, <1>5
  DEF RequestApproval, Resume, CheckStop, SettleStatus, Advances, Idle, WorkerTypeOK, historyVars
<1>6. CASE GoalRaises \/ CompleteTask
  <2>1. \A t \in Task : t # task => tracked'[t] = tracked[t]
    <3>1. UNCHANGED tracked \/ \E s : FinishWorkflow(s)
      BY <1>6 DEF GoalRaises, CompleteTask
    <3>2. QED BY <1>1, <3>1 DEF FinishWorkflow, WorkerTypeOK
  <2>2. QED
    BY <1>1, <1>2, <1>6, <2>1
    DEF GoalRaises, CompleteTask, Advances, Idle, WorkerTypeOK, taskVars, historyVars
<1>7. QED BY <1>3, <1>4, <1>5, <1>6 DEF WorkerStep

(* Nobody but the worker thread touches what is the worker's own.          *)
LEMMA OthersFrame ==
  ASSUME TaskTypeOK, [Next]_vars, ~WorkerStep
  PROVE  /\ UNCHANGED <<pc, task, tracked, finished>>
         /\ \A t \in Task : cancel[t] => cancel'[t]
         /\ \A t \in Task : status'[t] = "absent" => status[t] = "absent"
<1>1. CASE UNCHANGED <<pc, task, tracked, finished, cancel, status>>
  BY <1>1
<1>2. CASE Radar \/ Temporal \/ UNCHANGED vars
  BY <1>1, <1>2 DEF Radar, Temporal, kitVars, vars, workerVars, taskVars
<1>3. CASE Fault \/ Operator
  BY <1>1, <1>3
  DEF Fault, RestartRadar, GiveUp, LoseCall, Operator, DecideApproval, ConsoleDecides, workerVars,
      taskVars
<1>4. CASE User
  BY <1>4
  DEF User, SubmitTask, StopTask, ReadRecord, ShowAnswer, workerVars, taskVars, TaskTypeOK, WorkerTypeOK
<1>5. ASSUME NEW h \in handlers, HandlerStep(h)
      PROVE  /\ UNCHANGED <<pc, task, tracked, finished>>
             /\ \A t \in Task : cancel[t] => cancel'[t]
             /\ \A t \in Task : status'[t] = "absent" => status[t] = "absent"
  <2>1. UNCHANGED <<pc, task, tracked, finished>>
    BY <1>5
    DEF HandlerStep, FindEvent, WriteDecision, SetEvent, LookAtStatus, SettleCanceled,
        handlerFrame, workerVars
  <2>2. \A t \in Task : status'[t] = "absent" => status[t] = "absent"
    BY <1>5
    DEF HandlerStep, FindEvent, WriteDecision, SetEvent, LookAtStatus, SettleCanceled,
        TaskTypeOK, WorkerTypeOK
  <2>3. \A t \in Task : cancel[t] => cancel'[t]
    BY <1>5
    DEF HandlerStep, FindEvent, WriteDecision, SetEvent, LookAtStatus, SettleCanceled,
        TaskTypeOK, WorkerTypeOK
  <2>4. QED BY <2>1, <2>2, <2>3
<1>6. QED BY <1>2, <1>3, <1>4, <1>5 DEF Next, Handlers

(* A step of the radar is about one call, which is answered or goes on.    *)
Succeeds(next, c) ==
  /\ calls \ {c} \subseteq calls' /\ calls' \subseteq (calls \ {c}) \cup {next}
  /\ next.task = c.task /\ next.op = c.op /\ next.waited = c.waited
  /\ next.stage \in {"temporal", "tier", "signal"}
  /\ next.stage = "temporal" => c.op = "start"
  /\ c.op = "start" /\ c.stage = "sent" => next.stage = "temporal"

LEMMA RadarFrame ==
  ASSUME TrackingTypeOK, NEW c \in calls, RadarStep(c)
  PROVE  /\ \E next : Succeeds(next, c)
         /\ c.stage = "signal" => Finish(c) \/ FinishFails(c)
         /\ c.stage = "temporal" => calls' = calls \ {c}
<1>1. c \in AnyCall
  BY DEF TrackingTypeOK
<1>2. ASSUME NEW stage \in {"temporal", "tier", "signal"}, NEW signal,
             calls \ {c} \subseteq calls',
             calls' \subseteq (calls \ {c}) \cup {[c EXCEPT !.stage = stage, !.signal = signal]},
             stage = "temporal" => c.op = "start",
             c.op = "start" /\ c.stage = "sent" => stage = "temporal"
      PROVE  \E next : Succeeds(next, c)
  <2> DEFINE next == [c EXCEPT !.stage = stage, !.signal = signal]
  <2>1. next.task = c.task /\ next.op = c.op /\ next.waited = c.waited /\ next.stage = stage
    BY <1>1 DEF AnyCall
  <2>2. calls' \subseteq (calls \ {c}) \cup {next}
    BY <1>2
  <2> HIDE DEF next
  <2>3. Succeeds(next, c)
    BY <1>2, <2>1, <2>2 DEF Succeeds
  <2>4. QED BY <2>3
<1>3. ASSUME Answered(c)
      PROVE  \E next : Succeeds(next, c)
  <2>1. calls' = calls \ {c}
    BY <1>3 DEF Answered
  <2>2. CASE c.op = "start"
    BY <1>2, <2>1, <2>2
  <2>3. CASE c.op # "start"
    BY <1>2, <2>1, <2>3
  <2>4. QED BY <2>2, <2>3
<1>4. ASSUME NEW stage \in {"temporal", "tier", "signal"}, NEW signal, Becomes(c, stage, signal),
             stage = "temporal" => c.op = "start",
             c.op = "start" /\ c.stage = "sent" => stage = "temporal"
      PROVE  \E next : Succeeds(next, c)
  <2>1. /\ calls \ {c} \subseteq calls'
        /\ calls' \subseteq (calls \ {c}) \cup {[c EXCEPT !.stage = stage, !.signal = signal]}
    BY <1>4 DEF Becomes
  <2>2. QED BY <1>2, <1>4, <2>1
<1>5. \E next : Succeeds(next, c)
  <2>1. CASE AwaitTemporal(c)
    <3>1. c.op = "start" /\ Becomes(c, "temporal", None)
      BY <2>1 DEF AwaitTemporal
    <3>2. QED BY <1>4, <3>1
  <2>2. CASE AwaitTier(c)
    <3>1. c.op = "tool" /\ Becomes(c, "tier", None)
      BY <2>2 DEF AwaitTier
    <3>2. QED BY <1>4, <3>1
  <2>3. CASE GuardVetoes(c) \/ TierBlocks(c) \/ BudgetBlocks(c)
    <3>1. Becomes(c, "signal", "blocked") \/ Answered(c)
      BY <2>3 DEF GuardVetoes, TierBlocks, BudgetBlocks, Block
    <3>2. ~(c.op = "start" /\ c.stage = "sent")
      BY <2>3 DEF GuardVetoes, TierBlocks, BudgetBlocks, PastPolicy
    <3>3. QED BY <1>3, <1>4, <3>1, <3>2
  <2>4. CASE CompleteExecution(c)
    <3>1. c.op = "complete" /\ (Becomes(c, "signal", c.signal) \/ Answered(c))
      BY <2>4 DEF CompleteExecution
    <3>2. QED BY <1>3, <1>4, <3>1
  <2>5. CASE \/ RefuseStart(c) \/ StartFails(c) \/ StartUnheard(c) \/ StartWorkflow(c)
             \/ ForwardEvent(c) \/ Finish(c) \/ FinishFails(c)
    BY <1>3, <2>5
    DEF RefuseStart, StartFails, StartUnheard, StartWorkflow, ForwardEvent, Forward, Finish,
        FinishFails
  <2>6. QED BY <2>1, <2>2, <2>3, <2>4, <2>5 DEF RadarStep
<1>6. c.stage = "signal" => Finish(c) \/ FinishFails(c)
  BY DEF RadarStep, RefuseStart, AwaitTemporal, StartFails, StartUnheard, StartWorkflow,
         GuardVetoes, AwaitTier, TierBlocks, BudgetBlocks, ForwardEvent, PastPolicy,
         CompleteExecution
<1>7. c.stage = "temporal" => calls' = calls \ {c}
  BY DEF RadarStep, RefuseStart, AwaitTemporal, StartFails, StartUnheard, StartWorkflow,
         GuardVetoes, AwaitTier, TierBlocks, BudgetBlocks, ForwardEvent, PastPolicy,
         CompleteExecution, Finish, FinishFails, Answered
<1>8. QED BY <1>5, <1>6, <1>7

LEMMA RadarElsewhere ==
  ASSUME TrackingTypeOK, NEW c \in calls, RadarStep(c)
  PROVE  /\ \A t \in Task : t # c.task =>
              /\ replies'[t] = replies[t] /\ flow'[t] = flow[t] /\ done'[t] = done[t]
              /\ t \in execWorkflows' <=> t \in execWorkflows
         /\ \A t \in Task : flow[t] # "none" => flow'[t] = flow[t]
         /\ dropped \subseteq dropped'
         /\ ~(c.op = "start" \/ c.stage = "temporal") =>
              UNCHANGED <<replies, flow>> /\ execWorkflows' \subseteq execWorkflows
<1> USE DEF TrackingTypeOK, workflowVars
<1>1. CASE RefuseStart(c) \/ StartFails(c) \/ StartUnheard(c) \/ StartWorkflow(c)
  BY <1>1 DEF RefuseStart, StartFails, StartUnheard, StartWorkflow, Told
<1>2. CASE AwaitTemporal(c) \/ AwaitTier(c) \/ ForwardEvent(c)
  BY <1>2 DEF AwaitTemporal, AwaitTier, ForwardEvent, Forward
<1>3. CASE CompleteExecution(c) \/ \E cause : Block(c, cause)
  BY <1>3 DEF CompleteExecution, Block
<1>4. CASE Finish(c) \/ FinishFails(c)
  BY <1>4 DEF Finish, FinishFails
<1>5. QED BY <1>1, <1>2, <1>3, <1>4 DEF RadarStep, GuardVetoes, TierBlocks, BudgetBlocks

-----------------------------------------------------------------------------
(* A task is taken once.                                                   *)

LEMMA QueueKept ==
  ASSUME QueuedOnce, TaskTypeOK, UNCHANGED queue,
         \A t \in Task : status'[t] = "absent" => status[t] = "absent",
         \A t \in Task : Queued(t) =>
           /\ ~finished'[t] /\ flow'[t] = "none" /\ (task' = t => Idle')
           /\ \A c \in calls' : c.task # t
  PROVE  QueuedOnce'
<1>1. \A i \in DOMAIN queue : queue[i] \in Task
  BY DEF TaskTypeOK, WorkerTypeOK
<1>2. \A t \in Task : Queued(t)' => Queued(t)
  BY DEF Queued
<1>3. QED BY <1>1, <1>2 DEF QueuedOnce

LEMMA TakenOnce ==
  ASSUME QueuedOnce, TaskTypeOK, TakeTask
  PROVE  /\ Head(queue) \in Task /\ Queued(Head(queue))
         /\ QueuedOnce'
<1> DEFINE h == Head(queue)
<1>1. /\ h \in Task /\ 1 \in DOMAIN queue /\ h = queue[1] /\ queue # <<>>
  BY HeadOfQueue DEF TakeTask, TaskTypeOK
<1>2. /\ queue' = Tail(queue) /\ queue \in Seq(Task)
      /\ task' = h /\ pc' = "starting" /\ UNCHANGED <<finished, flow>>
      /\ status' = [status EXCEPT ![h] = "running"]
      /\ status \in [Task -> AnyStatus]
      /\ calls' = calls \cup {Request(h, "start", 1, None)}
  BY DEF TakeTask, TaskTypeOK, WorkerTypeOK, taskVars, radarVars, workflowVars
<1>3. Queued(h)
  BY <1>1 DEF Queued
<1>4. \A i \in DOMAIN Tail(queue) : i + 1 \in DOMAIN queue /\ Tail(queue)[i] = queue[i + 1] /\ i \in Nat /\ i >= 1
  BY <1>1, <1>2, HeadTailProperties
<1>5. \A i \in DOMAIN Tail(queue) : queue[i + 1] # h
  BY <1>1, <1>4 DEF QueuedOnce
<1>6. \A t \in Task : Queued(t)' => Queued(t) /\ t # h
  BY <1>1, <1>2, <1>4, <1>5 DEF Queued
<1>7. \A i, j \in DOMAIN Tail(queue) : Tail(queue)[i] = Tail(queue)[j] => i = j
  BY <1>4 DEF QueuedOnce
<1>8. \A i \in DOMAIN Tail(queue) : status'[Tail(queue)[i]] # "absent"
  <2>1. \A i \in DOMAIN queue : queue[i] \in Task
    BY <1>2
  <2>2. QED BY <1>2, <1>4, <2>1 DEF QueuedOnce
<1>9. \A c \in calls' : c \in calls \/ c.task = h
  BY <1>2 DEF Request
<1>10. QED BY <1>1, <1>2, <1>3, <1>6, <1>7, <1>8, <1>9 DEF QueuedOnce

LEMMA SubmittedOnce ==
  ASSUME QueuedOnce, TaskTypeOK, NEW u \in Task, SubmitTask(u)
  PROVE  QueuedOnce'
<1>1. /\ status[u] = "absent" /\ status' = [status EXCEPT ![u] = "queued"]
      /\ queue' = Append(queue, u) /\ queue \in Seq(Task)
      /\ status \in [Task -> AnyStatus]
      /\ UNCHANGED <<finished, flow, task, pc, calls>>
  BY DEF SubmitTask, TaskTypeOK, WorkerTypeOK, trackingVars, workerVars
<1>2. /\ DOMAIN queue = 1 .. Len(queue) /\ Len(queue) \in Nat
      /\ DOMAIN Append(queue, u) = 1 .. (Len(queue) + 1)
      /\ \A i \in 1 .. Len(queue) : Append(queue, u)[i] = queue[i] /\ queue[i] \in Task
      /\ Append(queue, u)[Len(queue) + 1] = u
  BY <1>1, AppendProperties
<1>3. \A i \in DOMAIN queue : queue[i] # u
  BY <1>1 DEF QueuedOnce
<1>4. \A t \in Task : Queued(t)' => Queued(t)
  BY <1>1, <1>2 DEF Queued
<1>5. \A i, j \in DOMAIN queue' : queue'[i] = queue'[j] => i = j
  BY <1>1, <1>2, <1>3 DEF QueuedOnce
<1>6. \A i \in DOMAIN queue' : status'[queue'[i]] # "absent"
  BY <1>1, <1>2 DEF QueuedOnce
<1>7. Idle' = Idle
  BY <1>1 DEF Idle
<1>8. QED BY <1>1, <1>4, <1>5, <1>6, <1>7 DEF QueuedOnce

(* A step of another part leaves the flows of the tasks in the queue alone. *)
LEMMA FlowFrame ==
  ASSUME TaskTypeOK, Temporal \/ \E t \in Task : StopTask(t)
  PROVE  /\ UNCHANGED <<calls, replies, execWorkflows, done, dropped, queue, missed>>
         /\ \A t \in Task : flow[t] = "none" => flow'[t] = "none"
         /\ \A t \in Task : flow'[t] \in {"none", "open"} => flow'[t] = flow[t]
  BY DEF Temporal, SeeDone, IdleTimeout, WrapUp, CloseWorkflow, StopTask, TerminateWorkflow, Running,
         kitVars, historyVars, TaskTypeOK, TrackingTypeOK

(* What is left of Next when the worker, the radar and Temporal, a stop    *)
(* and a new task are taken out.                                           *)
LEMMA AsideFrame ==
  ASSUME [Next]_vars, ~WorkerStep, ~Radar, ~Temporal, ~Fault, \A t \in Task : ~StopTask(t)
  PROVE  /\ UNCHANGED <<trackingVars, missed>>
         /\ UNCHANGED queue \/ \E t \in Task : SubmitTask(t)
<1>1. CASE User \/ Operator \/ UNCHANGED vars
  BY <1>1
  DEF User, SubmitTask, ReadRecord, ShowAnswer, Operator, DecideApproval, ConsoleDecides, vars,
      historyVars
<1>2. CASE Handlers
  BY <1>2
  DEF Handlers, HandlerStep, FindEvent, WriteDecision, SetEvent, LookAtStatus, SettleCanceled,
      handlerFrame, historyVars
<1>3. QED BY <1>1, <1>2 DEF Next

LEMMA FaultFrame ==
  ASSUME TrackingTypeOK, Fault, ~RestartRadar
  PROVE  /\ UNCHANGED <<replies, execWorkflows, flow, done, dropped, queue>>
         /\ missed \subseteq missed'
         /\ \A c \in calls' \ calls :
              /\ c.task \in missed'
              /\ \E d \in calls : c.task = d.task /\ c.op = d.op /\ c.stage = d.stage /\ d \notin calls'
         /\ \A c, e \in calls' \ calls : c = e
         /\ \A c \in calls \ calls' : c.task \in missed'
         /\ \A c \in calls : c.stage = "signal" =>
              \E d \in calls' : d.task = c.task /\ d.stage = "signal"
<1>1. ASSUME NEW c \in calls, GiveUp(c)
      PROVE  /\ UNCHANGED <<replies, execWorkflows, flow, done, dropped, queue>>
             /\ missed' = missed \cup {c.task}
             /\ \E next : /\ calls' = (calls \ {c}) \cup {next}
                        /\ next # c /\ next.task = c.task /\ next.op = c.op /\ next.stage = c.stage
  <2> DEFINE next == [c EXCEPT !.waited = FALSE]
  <2>1. next.task = c.task /\ next.op = c.op /\ next.stage = c.stage /\ ~next.waited
    BY CallGivenUp DEF TrackingTypeOK, AnyCall
  <2>2. calls' = (calls \ {c}) \cup {next} /\ c.waited
    BY <1>1 DEF GiveUp
  <2> HIDE DEF next
  <2>3. UNCHANGED <<replies, execWorkflows, flow, done, dropped, queue>> /\ missed' = missed \cup {c.task}
    BY <1>1 DEF GiveUp, radarVars, workflowVars
  <2>4. QED BY <2>1, <2>2, <2>3
<1>2. ASSUME NEW c \in calls, LoseCall(c)
      PROVE  /\ UNCHANGED <<replies, execWorkflows, flow, done, dropped, queue>>
             /\ missed' = missed \cup {c.task}
             /\ calls' = calls \ {c} /\ c.stage # "signal"
  BY <1>2 DEF LoseCall, radarVars, workflowVars
<1>3. PICK c \in calls : GiveUp(c) \/ LoseCall(c)
  BY DEF Fault
<1>4. CASE GiveUp(c)
  <2>1. PICK next : /\ calls' = (calls \ {c}) \cup {next}
                    /\ next # c /\ next.task = c.task /\ next.op = c.op /\ next.stage = c.stage
    BY <1>1, <1>4
  <2>2. UNCHANGED <<replies, execWorkflows, flow, done, dropped, queue>> /\ missed' = missed \cup {c.task}
    BY <1>1, <1>4
  <2>3. c \notin calls'
    BY <2>1
  <2>4. QED BY <2>1, <2>2, <2>3
<1>5. CASE LoseCall(c)
  BY <1>2, <1>5
<1>6. QED BY <1>3, <1>4, <1>5

LEMMA RestartFrame ==
  ASSUME TrackingTypeOK, RestartRadar
  PROVE  /\ calls' = {} /\ execWorkflows' = {} /\ UNCHANGED <<replies, done, queue>>
         /\ missed \subseteq missed' /\ \A c \in calls : c.task \in missed'
         /\ dropped \cup execWorkflows \subseteq dropped'
         /\ \A c \in calls : c.stage = "signal" => c.task \in dropped'
         /\ \A t \in Task : (\A c \in calls : c.task # t) => flow'[t] = flow[t]
         /\ \A t \in Task : t \notin dropped' => flow'[t] = flow[t]
<1>1. PICK begun \in SUBSET Starting :
        /\ calls' = {} /\ execWorkflows' = {}
        /\ flow' = [t \in Task |-> IF t \in begun THEN "open" ELSE flow[t]]
        /\ dropped' = dropped \cup execWorkflows \cup Telling \cup begun
        /\ UNCHANGED <<replies, done>>
  BY DEF RestartRadar, RestartTracking
<1>2. /\ \A c \in calls : c.stage = "signal" => c.task \in Telling
      /\ \A t \in begun : \E c \in calls : c.task = t
  BY DEF Starting, Telling
<1>3. missed' = missed \cup {c.task : c \in calls} /\ UNCHANGED queue
  BY DEF RestartRadar
<1>4. QED BY <1>1, <1>2, <1>3

LEMMA QueueStep ==
  ASSUME TaskTypeOK, QueuedOnce, [Next]_vars
  PROVE  QueuedOnce'
<1>1. TrackingTypeOK /\ WorkerTypeOK /\ \A c \in calls : c.task \in Task
  BY DEF TaskTypeOK, TrackingTypeOK, AnyCall
<1>2. CASE TakeTask
  BY <1>2, TakenOnce
<1>3. CASE WorkerStep /\ ~TakeTask
  <2>1. /\ ~Idle /\ UNCHANGED <<task, queue, flow>>
        /\ \A t \in Task : status'[t] = "absent" => status[t] = "absent"
        /\ \A t \in Task \ {task} : finished'[t] = finished[t]
        /\ \A c \in calls' \ calls : c.task = task
    BY <1>3, WorkerFrame, WorkerCalls DEF radarVars, workflowVars
  <2>2. \A t \in Task : Queued(t) => t # task
    BY <2>1 DEF QueuedOnce
  <2>3. ASSUME NEW t \in Task, Queued(t)
        PROVE  /\ ~finished'[t] /\ flow'[t] = "none" /\ (task' = t => Idle')
               /\ \A c \in calls' : c.task # t
    <3>1. ~finished'[t]
      <4>1. finished'[t] = finished[t] /\ ~finished[t]
        BY <2>1, <2>2, <2>3 DEF QueuedOnce
      <4>2. QED BY <4>1
    <3>2. flow'[t] = "none" /\ task' # t
      BY <2>1, <2>2, <2>3, Zenon DEF QueuedOnce
    <3>3. \A c \in calls' : c.task # t
      BY <2>1, <2>2, <2>3 DEF QueuedOnce
    <3>4. QED BY <3>1, <3>2, <3>3
  <2>4. UNCHANGED queue /\ \A t \in Task : status'[t] = "absent" => status[t] = "absent"
    BY <2>1
  <2>5. QED BY <2>3, <2>4, QueueKept, Zenon
<1>4. CASE ~WorkerStep
  <2>1. /\ UNCHANGED <<pc, finished, task>>
        /\ \A t \in Task : status'[t] = "absent" => status[t] = "absent"
    BY <1>4, OthersFrame
  <2>2. ASSUME UNCHANGED queue, \A t \in Task : Queued(t) => flow'[t] = "none",
               \A c \in calls' \ calls : \E d \in calls : c.task = d.task
        PROVE  QueuedOnce'
    <3>1. \A t \in Task : Queued(t) => \A c \in calls' : c.task # t
      BY <2>2 DEF QueuedOnce
    <3>2. Idle' = Idle
      BY <2>1 DEF Idle
    <3>3. QED BY <2>1, <2>2, <3>1, <3>2, QueueKept DEF QueuedOnce
  <2>3. CASE Radar
    <3>1. PICK c \in calls : RadarStep(c)
      BY <2>3 DEF Radar
    <3>2. \A t \in Task : Queued(t) => t # c.task
      BY <3>1 DEF QueuedOnce
    <3>3. \A t \in Task : Queued(t) => flow'[t] = "none"
      BY <1>1, <3>1, <3>2, RadarElsewhere DEF QueuedOnce
    <3>4. \A d \in calls' \ calls : d.task = c.task
      BY <1>1, <3>1, RadarFrame DEF Succeeds
    <3>5. UNCHANGED queue
      BY <2>3 DEF Radar, kitVars
    <3>6. QED BY <2>2, <3>1, <3>3, <3>4, <3>5
  <2>4. CASE Temporal \/ \E t \in Task : StopTask(t)
    <3>1. UNCHANGED <<calls, queue>> /\ \A t \in Task : flow[t] = "none" => flow'[t] = "none"
      BY <2>4, FlowFrame
    <3>2. \A t \in Task : Queued(t) => flow'[t] = "none"
      BY <3>1 DEF QueuedOnce
    <3>3. QED BY <2>2, <3>1, <3>2
  <2>5. CASE Fault
    <3>1. CASE RestartRadar
      <4>1. \A t \in Task : Queued(t) => flow'[t] = "none"
        BY <1>1, <3>1, RestartFrame DEF QueuedOnce
      <4>2. calls' = {} /\ UNCHANGED queue
        BY <1>1, <3>1, RestartFrame
      <4>3. QED BY <2>2, <4>1, <4>2
    <3>2. CASE ~RestartRadar
      <4>1. UNCHANGED <<flow, queue>> /\ \A c \in calls' \ calls : \E d \in calls : c.task = d.task
        BY <1>1, <2>5, <3>2, FaultFrame
      <4>2. QED BY <2>2, <4>1 DEF QueuedOnce
    <3>3. QED BY <3>1, <3>2
  <2>6. CASE ~Radar /\ ~Temporal /\ ~Fault /\ \A t \in Task : ~StopTask(t)
    <3>1. ASSUME UNCHANGED queue
          PROVE  QueuedOnce'
      BY <1>4, <2>2, <2>6, <3>1, AsideFrame DEF trackingVars, QueuedOnce
    <3>2. QED BY <1>4, <2>6, <3>1, AsideFrame, SubmittedOnce
  <2>7. QED BY <2>3, <2>4, <2>5, <2>6
<1>5. QED BY <1>2, <1>3, <1>4

(* The start of a task is one call.                                        *)
LEMMA StartsStep ==
  ASSUME TaskTypeOK, QueuedOnce, StartedOnce, [Next]_vars
  PROVE  StartedOnce'
<1>1. TrackingTypeOK /\ WorkerTypeOK /\ \A c \in calls : c.task \in Task
  BY DEF TaskTypeOK, TrackingTypeOK, AnyCall
<1>2. ASSUME \A t \in Task : flow[t] = "none" => flow'[t] = "none",
             \A c \in calls' \ calls : c.op # "start" /\ c.stage # "temporal"
      PROVE  StartedOnce'
  <2>1. \A t \in Task : Starts(t)' \subseteq Starts(t)
    BY <1>2 DEF Starts
  <2>2. QED BY <1>1, <1>2, <2>1 DEF StartedOnce
<1>3. CASE TakeTask
  <2> DEFINE h == Head(queue)
             new == Request(h, "start", 1, None)
  <2>1. h \in Task /\ flow[h] = "none" /\ \A c \in calls : c.task # h
    BY <1>3, TakenOnce DEF QueuedOnce
  <2>2. new.op = "start" /\ new.stage = "sent" /\ new.task = h
    BY DEF Request
  <2>3. calls' = calls \cup {new} /\ UNCHANGED flow
    BY <1>3 DEF TakeTask, radarVars, workflowVars
  <2> HIDE DEF h, new
  <2>4. \A t \in Task : Starts(t)' = IF t = h THEN {new} ELSE Starts(t)
    BY <2>1, <2>2, <2>3 DEF Starts
  <2>5. QED BY <2>1, <2>2, <2>3, <2>4 DEF StartedOnce
<1>4. CASE WorkerStep /\ ~TakeTask
  <2>1. UNCHANGED flow /\ \A c \in calls' \ calls : c.op # "start" /\ c.stage # "temporal"
    BY <1>4, WorkerSends, WorkerCalls DEF radarVars, workflowVars
  <2>2. QED BY <1>2, <2>1
<1>5. CASE Radar
  <2>1. PICK c \in calls : RadarStep(c)
    BY <1>5 DEF Radar
  <2>2. PICK next : Succeeds(next, c)
    BY <1>1, <2>1, RadarFrame
  <2>3. CASE c.op # "start"
    <3>1. c.stage # "temporal"
      BY <2>3 DEF StartedOnce
    <3>2. UNCHANGED flow
      BY <1>1, <2>1, <2>3, <3>1, RadarElsewhere
    <3>3. QED BY <1>2, <2>2, <2>3, <3>2 DEF Succeeds
  <2>4. CASE c.op = "start"
    <3>1. /\ c.stage \in {"sent", "temporal"} /\ flow[c.task] = "none"
          /\ \A d \in calls : d.op = "start" /\ d.task = c.task => d = c
      BY <1>1, <2>4 DEF StartedOnce, Starts
    <3>2. \A t \in Task : t # c.task => flow'[t] = flow[t]
      BY <1>1, <2>1, RadarElsewhere
    <3>3. CASE c.stage = "temporal"
      <4>1. calls' = calls \ {c}
        BY <1>1, <2>1, <3>3, RadarFrame
      <4>2. \A t \in Task : Starts(t)' \subseteq Starts(t)
        BY <4>1 DEF Starts
      <4>3. \A d \in calls' : d.op = "start" => flow'[d.task] = flow[d.task]
        BY <1>1, <3>1, <3>2, <4>1
      <4>4. QED BY <4>1, <4>2, <4>3 DEF StartedOnce
    <3>4. CASE c.stage = "sent"
      <4>1. next.stage = "temporal" /\ next.task = c.task /\ next.op = "start"
        BY <2>2, <2>4, <3>4 DEF Succeeds
      <4>2. UNCHANGED flow
        BY <2>1, <2>4, <3>4
        DEF RadarStep, RefuseStart, AwaitTemporal, StartFails, StartUnheard, StartWorkflow,
            GuardVetoes, AwaitTier, TierBlocks, BudgetBlocks, ForwardEvent, PastPolicy,
            CompleteExecution, Finish, FinishFails, workflowVars
      <4>3. \A t \in Task : Starts(t)' \subseteq IF t = c.task THEN {next} ELSE Starts(t)
        BY <2>2, <3>1, <4>1 DEF Succeeds, Starts
      <4>4. QED BY <2>2, <2>4, <3>1, <4>1, <4>2, <4>3 DEF StartedOnce, Succeeds
    <3>5. QED BY <3>1, <3>3, <3>4
  <2>5. QED BY <2>3, <2>4
<1>6. CASE Temporal \/ \E t \in Task : StopTask(t)
  <2>1. UNCHANGED calls /\ \A t \in Task : flow[t] = "none" => flow'[t] = "none"
    BY <1>6, FlowFrame
  <2>2. QED BY <1>2, <2>1
<1>7. CASE Fault /\ ~RestartRadar
  <2>1. /\ UNCHANGED flow
        /\ \A c \in calls' \ calls : \E d \in calls :
             c.task = d.task /\ c.op = d.op /\ c.stage = d.stage /\ d \notin calls'
        /\ \A c, e \in calls' \ calls : c = e
    BY <1>1, <1>7, FaultFrame
  <2>2. \A t \in Task : \A c, d \in Starts(t)' : c = d
    BY <2>1 DEF StartedOnce, Starts
  <2>3. QED BY <2>1, <2>2 DEF StartedOnce
<1>8. CASE ~WorkerStep /\ ~Radar /\ ~Temporal /\ ~Fault /\ \A t \in Task : ~StopTask(t)
  <2>1. UNCHANGED <<calls, flow>>
    BY <1>8, AsideFrame DEF trackingVars
  <2>2. QED BY <1>2, <2>1
<1>9. CASE RestartRadar
  BY <1>1, <1>9, RestartFrame DEF StartedOnce, Starts
<1>10. QED BY <1>3, <1>4, <1>5, <1>6, <1>7, <1>8, <1>9

-----------------------------------------------------------------------------
(* An open workflow is kept until a call has taken it out to finish it.    *)

LEMMA OpenKept ==
  ASSUME OpenIsKept, execWorkflows \subseteq execWorkflows', UNCHANGED <<done, dropped>>,
         \A t \in Task : flow'[t] = "open" => flow[t] = "open",
         \A c \in calls : c.stage = "signal" =>
           \E d \in calls' : d.task = c.task /\ d.stage = "signal"
  PROVE  OpenIsKept'
<1> SUFFICES ASSUME NEW t \in Task, flow'[t] = "open", ~done'[t]
             PROVE  \/ t \in execWorkflows' \/ t \in dropped'
                    \/ \E c \in calls' : c.task = t /\ c.stage = "signal"
  BY DEF OpenIsKept
<1>1. flow[t] = "open" /\ ~done[t]
  OBVIOUS
<1>2. t \in execWorkflows \/ t \in dropped \/ \E c \in calls : c.task = t /\ c.stage = "signal"
  BY <1>1 DEF OpenIsKept
<1>3. QED BY <1>2

LEMMA RadarKeepsOpen ==
  ASSUME TrackingTypeOK, OpenIsKept, NEW c \in calls, RadarStep(c)
  PROVE  OpenIsKept'
<1> SUFFICES ASSUME NEW t \in Task, flow'[t] = "open", ~done'[t], t \notin dropped'
             PROVE  t \in execWorkflows' \/ \E d \in calls' : d.task = t /\ d.stage = "signal"
  BY DEF OpenIsKept
<1>1. PICK next : Succeeds(next, c)
  BY RadarFrame
<1>2. c \in AnyCall
  BY DEF TrackingTypeOK
<1>3. t \notin dropped
  BY RadarElsewhere
<1>4. CASE t # c.task
  <2>1. flow[t] = "open" /\ done'[t] = done[t] /\ (t \in execWorkflows' <=> t \in execWorkflows)
    BY <1>4, RadarElsewhere
  <2>2. t \in execWorkflows \/ \E d \in calls : d.task = t /\ d.stage = "signal"
    BY <1>3, <2>1 DEF OpenIsKept
  <2>3. \A d \in calls : d.task = t => d \in calls'
    BY <1>1, <1>4 DEF Succeeds
  <2>4. QED BY <2>1, <2>2, <2>3
<1>5. CASE t = c.task /\ StartWorkflow(c)
  BY <1>5 DEF StartWorkflow
<1>6. CASE t = c.task /\ Finish(c)
  BY <1>6 DEF Finish, Running, TrackingTypeOK
<1>7. CASE t = c.task /\ ~StartWorkflow(c) /\ ~Finish(c)
  <2>1. ~StartUnheard(c) /\ ~FinishFails(c)
    BY <1>7 DEF StartUnheard, FinishFails
  <2>2. UNCHANGED <<flow, done>>
    BY <1>7, <2>1
    DEF RadarStep, RefuseStart, AwaitTemporal, StartFails, GuardVetoes, AwaitTier, TierBlocks,
        BudgetBlocks, ForwardEvent, Forward, CompleteExecution, Block, workflowVars
  <2>3. t \in execWorkflows \/ \E d \in calls : d.task = t /\ d.stage = "signal"
    BY <1>3, <2>2 DEF OpenIsKept
  <2>4. c.stage # "signal"
    BY <1>7, <2>1, RadarFrame
  <2>5. CASE \E d \in calls : d.task = t /\ d.stage = "signal"
    BY <1>1, <2>4, <2>5 DEF Succeeds
  <2>6. CASE t \in execWorkflows /\ t \notin execWorkflows'
    <3>1. PICK signal : Becomes(c, "signal", signal)
      BY <1>7, <2>1, <2>6
      DEF RadarStep, RefuseStart, AwaitTemporal, StartFails, GuardVetoes, AwaitTier, TierBlocks,
          BudgetBlocks, ForwardEvent, Forward, CompleteExecution, Block
    <3> DEFINE told == [c EXCEPT !.stage = "signal", !.signal = signal]
    <3>2. told \in calls'
      BY <3>1 DEF Becomes
    <3>3. told.task = t /\ told.stage = "signal"
      BY <1>2, <1>7 DEF AnyCall
    <3> HIDE DEF told
    <3>4. QED BY <3>2, <3>3
  <2>7. QED BY <2>3, <2>5, <2>6
<1>8. QED BY <1>4, <1>5, <1>6, <1>7

LEMMA OpenStep ==
  ASSUME TaskTypeOK, OpenIsKept, [Next]_vars
  PROVE  OpenIsKept'
<1>1. TrackingTypeOK
  BY DEF TaskTypeOK
<1>2. CASE Radar
  BY <1>1, <1>2, RadarKeepsOpen DEF Radar
<1>3. CASE WorkerStep
  <2>1. UNCHANGED <<execWorkflows, flow, done, dropped>> /\ calls \subseteq calls'
    BY <1>3, WorkerCalls DEF radarVars, workflowVars, SendsOf, Send, TakeTask
  <2>2. QED BY <2>1, OpenKept
<1>4. CASE Temporal \/ \E t \in Task : StopTask(t)
  <2>1. UNCHANGED <<calls, execWorkflows, done, dropped>>
    BY <1>4, FlowFrame
  <2>2. \A t \in Task : flow'[t] = "open" => flow[t] = "open"
    BY <1>4, FlowFrame
  <2>3. QED BY <2>1, <2>2, OpenKept
<1>5. CASE Fault /\ ~RestartRadar
  <2>1. /\ UNCHANGED <<execWorkflows, flow, done, dropped>>
        /\ \A c \in calls : c.stage = "signal" => \E d \in calls' : d.task = c.task /\ d.stage = "signal"
    BY <1>1, <1>5, FaultFrame
  <2>2. QED BY <2>1, OpenKept
<1>6. CASE ~WorkerStep /\ ~Radar /\ ~Temporal /\ ~Fault /\ \A t \in Task : ~StopTask(t)
  <2>1. UNCHANGED <<calls, execWorkflows, flow, done, dropped>>
    BY <1>6, AsideFrame DEF trackingVars
  <2>2. QED BY <2>1, OpenKept
<1>7. CASE RestartRadar
  <2> SUFFICES ASSUME NEW t \in Task, flow'[t] = "open", ~done'[t], t \notin dropped'
               PROVE  FALSE
    BY DEF OpenIsKept
  <2>1. flow[t] = "open" /\ ~done[t] /\ t \notin dropped \cup execWorkflows
    BY <1>1, <1>7, RestartFrame
  <2>2. \E c \in calls : c.task = t /\ c.stage = "signal"
    BY <2>1 DEF OpenIsKept
  <2>3. QED BY <1>1, <1>7, <2>2, RestartFrame
<1>8. QED BY <1>2, <1>3, <1>4, <1>5, <1>6, <1>7

-----------------------------------------------------------------------------
(* A task none of whose calls was missed is told what became of its start, *)
(* and tells of its end.                                                   *)

(* A step that leaves the task's calls, its start and its end alone.       *)
LEMMA Unconcerned ==
  ASSUME NEW t \in Task, InformedOf(t), replies'[t] = replies[t],
         flow[t] = "none" => flow'[t] = "none",
         t \in execWorkflows' => t \in execWorkflows,
         \A c \in calls : c.task = t => c \in calls',
         \A c \in calls' \ calls : c.task = t => c.waited /\ c.op # "start",
         Past(t)' => Past(t), Working(t)' => Working(t) /\ tracked'[t] = tracked[t],
         Ended(t)' /\ ~cancel'[t] => Ended(t) /\ ~cancel[t]
  PROVE  InformedOf(t)'
<1>1. \A c \in calls' : c.task = t => c.waited
  BY DEF InformedOf
<1>2. Starts(t)' = Starts(t)
  BY DEF Starts
<1>3. Starts(t) = {} => flow'[t] = "none" \/ replies'[t] = "started"
  BY DEF InformedOf
<1>4. Past(t)' => Starts(t)' = {}
  BY <1>2 DEF InformedOf
<1>5. Working(t)' /\ replies'[t] = "started" => tracked'[t]
  <2> SUFFICES ASSUME Working(t)', replies'[t] = "started"
               PROVE  tracked'[t]
    OBVIOUS
  <2>1. tracked[t]
    BY DEF InformedOf
  <2>2. QED BY <2>1
<1>6. TellsItsEnd(t) => TellsItsEnd(t)'
  BY DEF TellsItsEnd
<1>7. Ended(t)' /\ ~cancel'[t] => TellsItsEnd(t)'
  BY <1>6 DEF InformedOf
<1>8. QED BY <1>1, <1>2, <1>3, <1>4, <1>5, <1>7 DEF InformedOf

LEMMA TakeInforms ==
  ASSUME TaskTypeOK, QueuedOnce, TakeTask, NEW t \in Task, t # Head(queue) => InformedOf(t)
  PROVE  InformedOf(t)'
<1> DEFINE h == Head(queue)
           new == Request(h, "start", 1, None)
<1>1. h \in Task /\ flow[h] = "none" /\ ~finished[h] /\ \A c \in calls : c.task # h
  BY TakenOnce DEF QueuedOnce
<1>2. new.task = h /\ new.waited
  BY DEF Request
<1>3. /\ calls' = calls \cup {new} /\ task' = h /\ pc' = "starting"
      /\ UNCHANGED <<replies, flow, execWorkflows, finished, cancel, tracked>>
  BY DEF TakeTask, radarVars, workflowVars
<1> HIDE DEF h, new
<1>4. ~Working(t)' /\ (Past(t)' => finished[t]) /\ (Ended(t)' => finished[t])
  BY <1>3 DEF Working, Past, Ended
<1>5. CASE t = h
  <2>1. ~Past(t)' /\ ~Ended(t)'
    BY <1>1, <1>4, <1>5
  <2>2. flow'[t] = "none" /\ \A c \in calls' : c.task = t => c.waited
    BY <1>1, <1>2, <1>3, <1>5
  <2>3. QED BY <1>4, <2>1, <2>2 DEF InformedOf
<1>6. CASE t # h
  <2>1. InformedOf(t)
    BY <1>6 DEF h
  <2>2. /\ Past(t)' => Past(t)
        /\ Ended(t)' /\ ~cancel'[t] => Ended(t) /\ ~cancel[t]
    BY <1>3, <1>4 DEF Past, Ended
  <2>3. /\ \A c \in calls : c.task = t => c \in calls'
        /\ \A c \in calls' \ calls : c.task # t
    BY <1>2, <1>3, <1>6
  <2>4. QED BY <1>3, <1>4, <2>1, <2>2, <2>3, Unconcerned
<1>7. QED BY <1>5, <1>6

(* The steps of the worker on the way from the start to the end.           *)
LEMMA WorkGoesOn ==
  ASSUME TaskTypeOK, WorkerStep,
         ~TakeTask, ~BeginGoal, ~CompleteTask, ~GoalRaises, ~EndTask
  PROVE  /\ Working(task) /\ UNCHANGED <<tracked, finished, task>>
         /\ pc' \notin {"idle", "dead", "starting", "finished"}
<1>1. WorkerTypeOK
  BY DEF TaskTypeOK
<1>2. CASE AnnouncePause \/ RequestApproval \/ Wake \/ GoalReturns \/ Synthesize \/ SettleStatus
  BY <1>2
  DEF AnnouncePause, RequestApproval, Wake, GoalReturns, Synthesize, SettleStatus, Advances,
      Working, Idle, taskVars
<1>3. CASE \/ Resume \/ CheckStop \/ \E name \in GoalTools : GoalCallsTool(name)
           \/ \E result \in ToolResults(kit) : ExecuteTool(result)
  BY <1>1, <1>3
  DEF Resume, CheckStop, GoalCallsTool, Calls, ExecuteTool, Working, Idle, WorkerTypeOK, taskVars
<1>4. QED BY <1>2, <1>3 DEF WorkerStep

LEMMA WorkerInforms ==
  ASSUME TaskTypeOK, WorkerStep, ~TakeTask, NEW t \in Task, t = task, InformedOf(t)
  PROVE  InformedOf(t)'
<1>1. WorkerTypeOK
  BY DEF TaskTypeOK
<1>2. /\ UNCHANGED <<replies, flow, execWorkflows, cancel>> /\ task' = t
      /\ calls \subseteq calls' /\ \A c \in calls' \ calls : c.waited /\ c.op # "start"
  BY WorkerCalls, WorkerFrame, WorkerSends DEF radarVars, workflowVars
<1>3. InformedOf(t) /\ t = task
  OBVIOUS
<1>4. /\ \A c \in calls' : c.task = t => c.waited
      /\ Starts(t)' = Starts(t)
      /\ TellsItsEnd(t) => TellsItsEnd(t)'
  BY <1>2, <1>3 DEF InformedOf, Starts, TellsItsEnd
<1>5. CASE BeginGoal
  <2>1. pc = "starting" /\ ~Waiting /\ pc' = "goal" /\ UNCHANGED finished
    BY <1>5 DEF BeginGoal, taskVars
  <2>2. Starts(t) = {}
    BY <1>3, <2>1 DEF InformedOf, Waiting, Starts
  <2>3. tracked' = [tracked EXCEPT ![t] = (replies[t] = "started")]
    BY <1>5, Zenon DEF BeginGoal
  <2>4. replies'[t] = "started" => tracked'[t]
    <3>1. PICK b \in BOOLEAN : tracked' = [tracked EXCEPT ![t] = b] /\ (replies[t] = "started" => b)
      BY <2>3, Zenon
    <3>2. QED BY <1>1, <1>2, <3>1 DEF WorkerTypeOK
  <2>5. Ended(t)' => Ended(t)
    BY <2>1 DEF Ended
  <2>6. Ended(t)' /\ ~cancel'[t] => TellsItsEnd(t)'
    BY <1>2, <1>3, <1>4, <2>5 DEF InformedOf
  <2>7. QED BY <1>2, <1>3, <1>4, <2>2, <2>4, <2>6 DEF InformedOf
<1>6. CASE CompleteTask \/ GoalRaises
  <2>1. /\ pc' = "finished" /\ Working(t) /\ Past(t)
        /\ \/ StoppedMidRun \/ \E s : FinishWorkflow(s)
    BY <1>6 DEF CompleteTask, GoalRaises, Advances, Working, Past, Idle
  <2>2. ~Working(t)' /\ Starts(t) = {}
    BY <1>3, <2>1 DEF Working, InformedOf
  <2>3. ~cancel'[t] => TellsItsEnd(t)'
    <3>1. CASE StoppedMidRun
      BY <1>2, <3>1 DEF StoppedMidRun
    <3>2. CASE tracked[t] /\ \E s : FinishWorkflow(s)
      <4>1. PICK s : calls' = calls \cup {Request(t, "complete", sent + 1, s)}
        BY <3>2 DEF FinishWorkflow, Send
      <4> DEFINE new == Request(t, "complete", sent + 1, s)
      <4>2. new \in calls'
        BY <4>1
      <4>3. new.task = t /\ new.op = "complete" /\ new.stage = "sent"
        BY DEF Request
      <4> HIDE DEF new
      <4>4. QED BY <4>2, <4>3 DEF TellsItsEnd
    <3>3. CASE ~tracked[t]
      BY <1>2, <1>3, <2>1, <2>2, <3>3 DEF InformedOf, TellsItsEnd
    <3>4. QED BY <2>1, <3>1, <3>2, <3>3
  <2>4. QED BY <1>2, <1>3, <1>4, <2>2, <2>3 DEF InformedOf
<1>7. CASE EndTask
  <2>1. /\ pc = "finished" /\ pc' = "idle"
    BY <1>7 DEF EndTask, Advances
  <2>2. Past(t) /\ Ended(t) /\ ~Working(t)'
    BY <2>1 DEF Past, Ended, Working, Idle
  <2>3. QED BY <1>1, <1>2, <1>3, <2>2, Unconcerned
<1>8. CASE ~BeginGoal /\ ~CompleteTask /\ ~GoalRaises /\ ~EndTask
  <2>1. /\ Working(t) /\ UNCHANGED <<tracked, finished>>
        /\ pc' \notin {"idle", "dead", "starting", "finished"}
    BY <1>8, WorkGoesOn
  <2>2. Past(t) /\ (Ended(t)' => Ended(t))
    BY <2>1 DEF Past, Working, Ended
  <2>3. QED BY <1>1, <1>2, <1>3, <2>1, <2>2, Unconcerned
<1>9. QED BY <1>5, <1>6, <1>7, <1>8

LEMMA RadarInforms ==
  ASSUME TaskTypeOK, StartedOnce, NEW c \in calls, RadarStep(c), NEW t \in Task, t = c.task,
         t \notin dropped', InformedOf(t), UNCHANGED <<pc, task, tracked, finished>>, cancel[t] => cancel'[t]
  PROVE  InformedOf(t)'
<1>1. TrackingTypeOK
  BY DEF TaskTypeOK
<1>2. PICK next : Succeeds(next, c)
  BY <1>1, RadarFrame
<1>3. Working(t)' = Working(t) /\ Past(t)' = Past(t) /\ Ended(t)' = Ended(t)
  BY DEF Working, Past, Ended, Idle
<1>4. \A d \in calls' : d.task = t => d.waited
  BY <1>2 DEF InformedOf, Succeeds
<1>5. CASE c.op = "start"
  <2> ~StartUnheard(c) /\ ~FinishFails(c)
    BY DEF StartUnheard, FinishFails
  <2>1. ~Past(t)
    BY <1>5 DEF InformedOf, Starts
  <2>2. flow[t] = "none" /\ c.stage \in {"sent", "temporal"}
    BY <1>5 DEF StartedOnce
  <2>3. flow'[t] = "none" \/ replies'[t] = "started"
    <3>1. RefuseStart(c) \/ AwaitTemporal(c) \/ StartFails(c) \/ StartWorkflow(c)
      BY <1>5, <2>2
      DEF RadarStep, GuardVetoes, AwaitTier, TierBlocks, BudgetBlocks, ForwardEvent, PastPolicy,
          CompleteExecution, Finish
    <3>2. CASE StartWorkflow(c)
      <4>1. c.waited /\ replies \in [Task -> {None, "started", "refused"}]
        BY <1>1 DEF InformedOf, TrackingTypeOK
      <4>2. QED BY <3>2, <4>1 DEF StartWorkflow, Told
    <3>3. CASE RefuseStart(c) \/ AwaitTemporal(c) \/ StartFails(c)
      BY <2>2, <3>3 DEF RefuseStart, AwaitTemporal, StartFails, workflowVars
    <3>4. QED BY <3>1, <3>2, <3>3
  <2>4. ~Working(t)' /\ ~Ended(t)' /\ ~Past(t)'
    BY <1>3, <2>1 DEF Working, Ended, Past, Idle
  <2>5. QED BY <1>4, <2>3, <2>4 DEF InformedOf
<1>6. CASE c.op # "start"
  <2>1. c.stage # "temporal"
    BY <1>6 DEF StartedOnce
  <2>2. UNCHANGED <<replies, flow>> /\ execWorkflows' \subseteq execWorkflows
    BY <1>1, <1>6, <2>1, RadarElsewhere
  <2>3. Starts(t)' = Starts(t)
    BY <1>2, <1>6 DEF Succeeds, Starts
  <2>4. TellsItsEnd(t) => TellsItsEnd(t)'
    <3>1. CASE c.op = "complete" /\ c.stage = "sent"
      <4>1. CompleteExecution(c)
        BY <3>1
        DEF RadarStep, RefuseStart, AwaitTemporal, StartFails, StartUnheard, StartWorkflow,
            GuardVetoes, AwaitTier, TierBlocks, BudgetBlocks, ForwardEvent, PastPolicy, Finish,
            FinishFails
      <4>2. QED BY <4>1 DEF CompleteExecution, TellsItsEnd
    <3>2. CASE ~(c.op = "complete" /\ c.stage = "sent")
      BY <1>2, <2>2, <3>2 DEF TellsItsEnd, Succeeds
    <3>3. QED BY <3>1, <3>2
  <2>5. Working(t)' /\ replies'[t] = "started" => tracked'[t]
    BY <1>3, <2>2 DEF InformedOf
  <2>6. Ended(t)' /\ ~cancel'[t] => TellsItsEnd(t)'
    BY <1>3, <2>4 DEF InformedOf
  <2>7. QED BY <1>3, <1>4, <2>2, <2>3, <2>5, <2>6 DEF InformedOf
<1>7. QED BY <1>5, <1>6

LEMMA OthersInform ==
  ASSUME TaskTypeOK, [Next]_vars, ~WorkerStep, NEW t \in Task, InformedOf(t),
         replies'[t] = replies[t], flow[t] = "none" => flow'[t] = "none",
         t \in execWorkflows' => t \in execWorkflows,
         \A c \in calls : c.task = t => c \in calls',
         \A c \in calls' \ calls : c.task # t
  PROVE  InformedOf(t)'
<1>1. UNCHANGED <<pc, task, tracked, finished>> /\ (cancel[t] => cancel'[t])
  BY OthersFrame
<1>2. /\ Past(t)' => Past(t)
      /\ Working(t)' => Working(t) /\ tracked'[t] = tracked[t]
      /\ Ended(t)' /\ ~cancel'[t] => Ended(t) /\ ~cancel[t]
  BY <1>1 DEF Past, Working, Ended, Idle
<1>3. QED BY <1>2, Unconcerned

LEMMA InformedStep ==
  ASSUME TaskTypeOK, QueuedOnce, StartedOnce, Informed, [Next]_vars
  PROVE  Informed'
<1> SUFFICES ASSUME NEW t \in Task, t \notin missed', t \notin dropped'
             PROVE  InformedOf(t)'
  BY DEF Informed
<1>1. TrackingTypeOK /\ WorkerTypeOK
  BY DEF TaskTypeOK
<1>2. missed \subseteq missed' /\ dropped \subseteq dropped'
  <2>1. CASE WorkerStep
    BY <2>1, WorkerFrame, WorkerCalls DEF TakeTask, historyVars, radarVars
  <2>2. CASE Radar
    BY <1>1, <2>2, RadarElsewhere DEF Radar, kitVars, historyVars
  <2>3. CASE Temporal \/ \E u \in Task : StopTask(u)
    BY <2>3, FlowFrame
  <2>4. CASE Fault
    BY <1>1, <2>4, FaultFrame, RestartFrame
  <2>5. CASE ~WorkerStep /\ ~Radar /\ ~Temporal /\ ~Fault /\ \A u \in Task : ~StopTask(u)
    BY <2>5, AsideFrame DEF trackingVars
  <2>6. QED BY <2>1, <2>2, <2>3, <2>4, <2>5
<1>3. InformedOf(t)
  BY <1>2 DEF Informed
<1>4. CASE TakeTask
  BY <1>3, <1>4, TakeInforms
<1>5. CASE WorkerStep /\ ~TakeTask
  <2>1. CASE t = task
    BY <1>3, <1>5, <2>1, WorkerInforms
  <2>2. CASE t # task
    <3>1. /\ UNCHANGED <<replies, flow, execWorkflows, cancel, task>>
          /\ calls \subseteq calls' /\ \A c \in calls' \ calls : c.task # t
          /\ finished'[t] = finished[t]
      BY <1>5, <2>2, WorkerCalls, WorkerFrame DEF radarVars, workflowVars
    <3>2. /\ Past(t)' => Past(t)
          /\ ~Working(t)'
          /\ Ended(t)' => Ended(t)
      BY <2>2, <3>1 DEF Past, Working, Ended
    <3>3. QED BY <1>3, <3>1, <3>2, Unconcerned
  <2>3. QED BY <2>1, <2>2
<1>6. CASE Radar
  <2>1. PICK c \in calls : RadarStep(c) /\ UNCHANGED kitVars
    BY <1>6 DEF Radar
  <2>2. UNCHANGED <<pc, task, tracked, finished, cancel>>
    BY <2>1 DEF kitVars, workerVars, taskVars
  <2>3. CASE t = c.task
    BY <1>3, <2>1, <2>2, <2>3, RadarInforms
  <2>4. CASE t # c.task
    <3>1. PICK next : Succeeds(next, c)
      BY <1>1, <2>1, RadarFrame
    <3>2. /\ \A d \in calls : d.task = t => d \in calls'
          /\ \A d \in calls' \ calls : d.task # t
      BY <2>4, <3>1 DEF Succeeds
    <3>3. /\ replies'[t] = replies[t] /\ flow'[t] = flow[t]
          /\ t \in execWorkflows' => t \in execWorkflows
      BY <1>1, <2>1, <2>4, RadarElsewhere
    <3>4. /\ Past(t)' => Past(t)
          /\ Working(t)' => Working(t) /\ tracked'[t] = tracked[t]
          /\ Ended(t)' /\ ~cancel'[t] => Ended(t) /\ ~cancel[t]
      BY <2>2 DEF Past, Working, Ended, Idle
    <3>5. QED BY <1>3, <3>2, <3>3, <3>4, Unconcerned
  <2>5. QED BY <2>3, <2>4
<1>7. CASE ~WorkerStep /\ (Temporal \/ \E u \in Task : StopTask(u))
  <2>1. /\ UNCHANGED <<calls, replies, execWorkflows>>
        /\ flow[t] = "none" => flow'[t] = "none"
    BY <1>7, FlowFrame
  <2>2. QED BY <1>3, <1>7, <2>1, OthersInform
<1>8. CASE ~WorkerStep /\ Fault /\ ~RestartRadar
  <2>1. /\ UNCHANGED <<replies, execWorkflows, flow>>
        /\ \A c \in calls : c.task = t => c \in calls'
        /\ \A c \in calls' \ calls : c.task # t
    BY <1>1, <1>8, FaultFrame
  <2>2. QED BY <1>3, <1>8, <2>1, OthersInform
<1>9. CASE ~WorkerStep /\ ~Radar /\ ~Temporal /\ ~Fault /\ \A u \in Task : ~StopTask(u)
  <2>1. UNCHANGED <<calls, replies, execWorkflows, flow>>
    BY <1>9, AsideFrame DEF trackingVars
  <2>2. QED BY <1>3, <1>9, <2>1, OthersInform
<1>10. CASE ~WorkerStep /\ RestartRadar
  <2>1. /\ calls' = {} /\ execWorkflows' = {} /\ UNCHANGED replies
        /\ \A c \in calls : c.task # t
        /\ flow'[t] = flow[t]
    BY <1>1, <1>10, RestartFrame
  <2>2. QED BY <1>3, <1>10, <2>1, OthersInform
<1>11. QED BY <1>4, <1>5, <1>6, <1>7, <1>8, <1>9, <1>10

LEMMA InvStarts == Init => TaskInv
<1> SUFFICES ASSUME Init PROVE TaskInv
  OBVIOUS
<1>1. TaskTypeOK /\ ApprovalsCover /\ OneTells
  BY StartTypes, CoverStart, TellStart
<1>2. /\ calls = {} /\ queue = <<>> /\ missed = {} /\ pc \in {"idle", "dead"}
      /\ flow = [t \in Task |-> "none"] /\ finished = [t \in Task |-> FALSE]
  BY DEF Init, InitTracking
<1>3. QueuedOnce
  BY <1>2 DEF QueuedOnce, Idle
<1>4. StartedOnce
  BY <1>2 DEF StartedOnce, Starts
<1>5. Informed
  BY <1>2 DEF Informed, InformedOf, Starts, Past, Working, Ended, Idle
<1>6. OpenIsKept
  BY <1>2 DEF OpenIsKept
<1>7. QED BY <1>1, <1>3, <1>4, <1>5, <1>6 DEF TaskInv

LEMMA InvHolds == TaskInv /\ [Next]_vars => TaskInv'
<1> SUFFICES ASSUME TaskInv, [Next]_vars PROVE TaskInv'
  OBVIOUS
<1> USE DEF TaskInv
<1>1. TaskTypeOK'
  BY TaskTypesHold, TrackingStep, WorkerTypeStep, PauseTypeStep DEF TaskTypeOK
<1>2. ApprovalsCover'
  BY CoverStep
<1>3. OneTells'
  BY TellStep
<1>4. QueuedOnce' /\ StartedOnce'
  BY QueueStep, StartsStep
<1>5. Informed'
  BY InformedStep
<1>6. OpenIsKept'
  BY OpenStep
<1>7. QED BY <1>1, <1>2, <1>3, <1>4, <1>5, <1>6

-----------------------------------------------------------------------------
(* THEOREMS *)

(* For any bundle, tools and number of tasks, pauses, operators and users, *)
(* a task has run no more writes than approvals were given for it: an      *)
(* approval on its way, stored in a pause, or used by the write under way  *)
(* is counted once (awcp_kit.py call_tool, approve_task, cancel_task).     *)
THEOREM ApprovalsReleaseOnce == Spec => []OneApprovalPerWrite
<1>1. ASSUME TaskInv
      PROVE  OneApprovalPerWrite
  <2> SUFFICES ASSUME NEW t \in Task PROVE Cardinality(Ran(t)) <= approvals[t]
    BY DEF OneApprovalPerWrite, Ran
  <2>1. /\ Cardinality(Approving(t)) \in Nat /\ Cardinality(Ran(t)) \in Nat
        /\ Held(t) \in {0, 1} /\ approvals[t] \in Nat
    BY <1>1, CoverOf DEF TaskInv
  <2>2. Cardinality(Ran(t)) + Cardinality(Approving(t)) + Held(t) <= approvals[t]
    BY <1>1 DEF TaskInv, ApprovalsCover
  <2>3. QED BY <2>1, <2>2
<1>2. QED BY <1>1, InvStarts, InvHolds, PTL DEF Spec

(* Whatever calls of the agents overlap at the radar's awaits, a workflow  *)
(* that has been told its outcome is never told another one: the call that *)
(* takes the task out of exec_workflows is the only one to finish it       *)
(* (radar/api.py execution_event, execution_complete_ep).                  *)
THEOREM VerdictsStand == Spec => VerdictStands
<1>1. TaskInv /\ [Next]_vars => [\A t \in Task : done[t] => UNCHANGED <<done[t], outcome[t]>>]_vars
  BY VerdictStep DEF TaskInv
<1>2. QED BY <1>1, InvStarts, InvHolds, PTL DEF Spec, VerdictStands

(* A workflow that is still open and untold once its task has ended and no *)
(* call about it is under way belongs to a task the user stopped, one of   *)
(* whose calls was given up or lost, or one the radar has lost sight of:   *)
(* there is no fourth way (awcp_kit.py _worker_loop,                       *)
(* _start_execution_workflow, _finish_execution_workflow; radar/api.py     *)
(* execution_event, execution_complete_ep).                                *)
THEOREM OrphansHaveCauses == Spec => []OrphansExplained
<1>1. ASSUME TaskInv
      PROVE  OrphansExplained
  <2> SUFFICES ASSUME NEW t \in Task, finished[t], ~done[t], \A c \in calls : c.task # t,
                      flow[t] = "open", ~cancel[t], t \notin missed, t \notin dropped
               PROVE  FALSE
    BY DEF OrphansExplained
  <2>1. t \in execWorkflows
    BY <1>1 DEF TaskInv, OpenIsKept
  <2>2. TellsItsEnd(t)
    BY <1>1 DEF TaskInv, Informed, InformedOf, Ended
  <2>3. QED BY <2>1, <2>2 DEF TellsItsEnd
<1>2. QED BY <1>1, InvStarts, InvHolds, PTL DEF Spec
====
