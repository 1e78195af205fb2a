---------------------------- MODULE GovernedTask ----------------------------
(***************************************************************************)
(* A task from the user's prompt to its answer: the worker thread of an    *)
(* agent bundle (awcp_kit.py) that runs it, the route handlers of that     *)
(* process by which an operator releases a write and a user stops the      *)
(* task, the radar's approvals, the radar's tracking of the run            *)
(* (ExecutionTracking), and the gateway (gateway/user.py) that stops the   *)
(* task and shows its answer.                                              *)
(*                                                                         *)
(* One worker thread takes one task at a time; handlers run on threads of  *)
(* their own, between any two statements of the worker. What a call at the *)
(* radar answers is not looked at, but for a start, so the worker only     *)
(* waits until it is answered or it gives up on it.                        *)
(***************************************************************************)
EXTENDS ExecutionTracking, BundleKits, Sequences, FiniteSets

CONSTANTS
  Kits,             (* bundles the agent may be one of                      *)
  GoalTools,        (* tools a goal may call                                *)
  Limit,            (* bound on how often each event of Event happens       *)
  MaxOutside        (* bound on those that are not the agent's own doing    *)

(* Tool calls of the goal, verdicts of operators, stops by the user, calls  *)
(* that are lost or given up and restarts of the radar, and readings of the *)
(* answer.                                                                  *)
Event == {"tool", "verdict", "stop", "fault", "read"}
ASSUME KitsAssumption == Kits \subseteq Kit /\ Kits # {}
ASSUME GoalToolsAssumption == GoalTools \subseteq {"read", "external_post", "save_artifact"}
ASSUME LimitAssumption == Limit \in [Event -> Nat] /\ MaxOutside \in Nat

VARIABLES
  kit,              (* which bundle runs                                    *)
  queue,            (* _QUEUE                                               *)
  status,           (* task["status"]; absent before it is submitted        *)
  cancel,           (* task["cancel"]                                       *)
  finished,         (* task["finished"]                                     *)
  spoilt,           (* some step of the task is blocked or denied           *)
  saved,            (* some step of the task is a save_artifact             *)
  tracked,          (* _CURRENT_EXEC_WF                                     *)
  event,            (* _APPROVAL_EVENTS: number of the registered pause     *)
  set,              (* the pauses whose event object is set                 *)
  decision,         (* _APPROVAL_DECISION                                   *)
  pauses,           (* pauses of the task so far                            *)
  pc,               (* where the worker thread is                           *)
  task,             (* the task it works on                                 *)
  tool,             (* the tool it calls                                    *)
  got,              (* what ev.wait returned                                *)
  back,             (* where it goes on after the call                      *)
  sent,             (* calls it has sent for the task                       *)
  handlers,         (* handlers of the agent's routes                       *)
  requests,         (* write approvals pending at the radar                 *)
  shown,            (* what the gateway has read or shown of a task         *)
  approvals,        (* history: approvals given for writes of the task      *)
  writes,           (* history: pauses after which the write ran            *)
  missed,           (* history: tasks a call of which went unanswered       *)
  spent             (* how often each bounded event has happened            *)

taskVars == <<status, cancel, finished, spoilt, saved>>
pauseVars == <<event, set, decision, pauses>>
workerVars == <<pc, task, tool, got, back, sent, tracked>>
outerVars == <<handlers, requests, shown, approvals>>
historyVars == <<writes, missed, spent>>
radarVars == <<replies, execWorkflows, workflowVars, verdict, dropped>>
vars == <<trackingVars, kit, queue, taskVars, pauseVars, workerVars, outerVars,
          historyVars>>

Init ==
  /\ InitTracking
  /\ kit \in Kits /\ queue = <<>>
  /\ status = [t \in Task |-> "absent"]
  /\ cancel = [t \in Task |-> FALSE] /\ finished = [t \in Task |-> FALSE]
  /\ spoilt = [t \in Task |-> FALSE] /\ saved = [t \in Task |-> FALSE]
  /\ tracked = [t \in Task |-> FALSE]
  /\ event = [t \in Task |-> 0] /\ set = {}
  /\ decision = [t \in Task |-> None] /\ pauses = [t \in Task |-> 0]
  /\ pc = (IF Survives(kit) THEN "idle" ELSE "dead")
  /\ task \in {CHOOSE t \in Task : TRUE} /\ tool = "read" /\ got = FALSE
  /\ back = "goal" /\ sent = 0
  /\ handlers = {} /\ requests = {}
  /\ shown = [t \in Task |-> None] /\ approvals = [t \in Task |-> 0]
  /\ writes = {} /\ missed = {}
  /\ spent = [e \in Event |-> 0]

Outside == spent["verdict"] + spent["stop"] + spent["fault"] + spent["read"]
Spend(e) ==
  /\ spent[e] < Limit[e] /\ (e = "tool" \/ Outside < MaxOutside)
  /\ spent' = [spent EXCEPT ![e] = @ + 1]

-----------------------------------------------------------------------------
(* Tasks are queued, and the worker takes one.                              *)

SubmitTask(t) ==
  /\ status[t] = "absent"
  /\ status' = [status EXCEPT ![t] = "queued"]
  /\ queue' = Append(queue, t)
  /\ UNCHANGED <<trackingVars, kit, cancel, finished, spoilt, saved, pauseVars,
                 workerVars, outerVars, historyVars>>

Waiting == \E c \in calls : c.waited

(* The n-th call of the task. An event, or the end of the task, is only     *)
(* sent when the start has been answered with a workflow.                   *)
Send(op, signal) ==
  /\ calls' = calls \cup {Request(task, op, sent + 1, signal)}
  /\ sent' = sent + 1
Emit(op) ==
  IF tracked[task] \/ ~EventsNeedStart(kit)
    THEN Send(op, None) ELSE UNCHANGED <<calls, sent>>
FinishWorkflow(outcomeStatus) ==
  /\ tracked' = [tracked EXCEPT ![task] = FALSE]
  /\ IF tracked[task] THEN Send("complete", outcomeStatus) ELSE UNCHANGED <<calls, sent>>

(* A task stopped while it was queued is taken and run all the same.        *)
TakeTask ==
  /\ pc = "idle" /\ queue # <<>>
  /\ LET t == Head(queue)
     IN  /\ queue' = Tail(queue)
         /\ task' = t
         /\ status' = [status EXCEPT ![t] = "running"]
         /\ calls' = calls \cup {Request(t, "start", 1, None)}
         /\ sent' = 1
         /\ pc' = "starting"
  /\ UNCHANGED <<radarVars, kit, cancel, finished, spoilt, saved, pauseVars, tool,
                 got, back, tracked, outerVars, historyVars>>

BeginGoal ==
  /\ pc = "starting" /\ ~Waiting
  /\ tracked' = [tracked EXCEPT ![task] = replies[task] = "started"]
  /\ IF replies[task] = "started" THEN Send("event", None) ELSE UNCHANGED <<calls, sent>>
  /\ pc' = "goal"
  /\ UNCHANGED <<radarVars, kit, queue, taskVars, pauseVars, task, tool, got, back,
                 outerVars, historyVars>>

(* The worker hears nothing in time, or cannot reach the radar at all.      *)
GiveUp(c) ==
  /\ c.waited /\ Spend("fault")
  /\ calls' = (calls \ {c}) \cup {[c EXCEPT !.waited = FALSE]}
  /\ missed' = missed \cup {c.task}
  /\ UNCHANGED <<radarVars, kit, queue, taskVars, pauseVars, workerVars, outerVars,
                 writes>>

LoseCall(c) ==
  /\ c.waited /\ c.stage = "sent" /\ Spend("fault")
  /\ calls' = calls \ {c}
  /\ missed' = missed \cup {c.task}
  /\ UNCHANGED <<radarVars, kit, queue, taskVars, pauseVars, workerVars, outerVars,
                 writes>>

-----------------------------------------------------------------------------
(* call_tool, inside the goal and in the write that ends a task.            *)

RiskOf == [name \in {"read"} \cup DOMAIN Writes(kit) |->
             IF name = "read" THEN "low" ELSE Writes(kit)[name]]

Calls(name, returnTo) ==
  /\ tool' = name /\ back' = returnTo
  /\ pc' = IF PausesFor(kit, RiskOf[name]) THEN "announce" ELSE "execute"

GoalCallsTool(name) ==
  /\ pc = "goal" /\ ~Waiting /\ Spend("tool")
  /\ Calls(name, "goal")
  /\ UNCHANGED <<trackingVars, kit, queue, taskVars, pauseVars, task, got, sent,
                 tracked, outerVars, writes, missed>>

AnnouncePause ==
  /\ pc = "announce"
  /\ pauses' = [pauses EXCEPT ![task] = @ + 1]
  /\ event' = [event EXCEPT ![task] = pauses[task] + 1]
  /\ pc' = "announced"
  /\ UNCHANGED <<trackingVars, kit, queue, taskVars, set, decision, task, tool, got,
                 back, sent, tracked, outerVars, historyVars>>

(* The request an operator finds at the radar, pending until it is decided. *)
ApprovalRow == <<task, pauses[task]>>
CreateApproval == requests' = requests \cup {ApprovalRow}

(* Every step of a tool carries its name, the one that tells of the pause   *)
(* as well.                                                                 *)
RequestApproval ==
  /\ pc = "announced"
  /\ decision' = [decision EXCEPT ![task] = None]
  /\ status' = [status EXCEPT ![task] = "awaiting_approval"]
  /\ saved' = [saved EXCEPT ![task] = @ \/ tool = "save_artifact"]
  /\ IF AsksRadar(kit) THEN CreateApproval ELSE UNCHANGED requests
  /\ pc' = "parked"
  /\ UNCHANGED <<trackingVars, kit, queue, cancel, finished, spoilt, event, set,
                 pauses, task, tool, got, back, sent, tracked, handlers, shown,
                 approvals, historyVars>>

(* Mutant: the wait for the operator has no timeout.                        *)
WakeWhenSet ==
  /\ pc = "parked" /\ <<task, pauses[task]>> \in set
  /\ got' = TRUE
  /\ pc' = "woken"
  /\ UNCHANGED <<trackingVars, kit, queue, taskVars, pauseVars, task, tool, back,
                 sent, tracked, outerVars, historyVars>>

(* ev.wait returns because the event is set, or after APPROVAL_TIMEOUT.     *)
Wake ==
  /\ pc = "parked"
  /\ got' = (<<task, pauses[task]>> \in set)
  /\ pc' = "woken"
  /\ UNCHANGED <<trackingVars, kit, queue, taskVars, pauseVars, task, tool, back,
                 sent, tracked, outerVars, historyVars>>

(* Mutant: a pause that was released counts as approved.                    *)
ResumeReleased ==
  /\ pc = "woken"
  /\ event' = [event EXCEPT ![task] = 0]
  /\ status' = [status EXCEPT ![task] = "running"]
  /\ IF got
       THEN pc' = "execute" /\ UNCHANGED spoilt
       ELSE pc' = back /\ spoilt' = [spoilt EXCEPT ![task] = TRUE]
  /\ UNCHANGED <<trackingVars, kit, queue, cancel, finished, saved, set, decision,
                 pauses, task, tool, got, back, sent, tracked, outerVars, historyVars>>

Resume ==
  /\ pc = "woken"
  /\ event' = [event EXCEPT ![task] = 0]
  /\ status' = [status EXCEPT ![task] = "running"]
  /\ IF got /\ decision[task] = "approve"
       THEN pc' = "execute" /\ UNCHANGED spoilt
       ELSE pc' = back /\ spoilt' = [spoilt EXCEPT ![task] = TRUE]
  /\ UNCHANGED <<trackingVars, kit, queue, cancel, finished, saved, set, decision,
                 pauses, task, tool, got, back, sent, tracked, outerVars, historyVars>>

(* The MCP server runs the tool, denies it or cannot be reached; the event  *)
(* that tells the radar follows the run.                                    *)
ExecuteTool(result) ==
  /\ pc = "execute"
  /\ IF result = "unreachable" THEN UNCHANGED <<calls, sent>> ELSE Emit("tool")
  /\ spoilt' = [spoilt EXCEPT ![task] = @ \/ result = "blocked"]
  /\ saved' = [saved EXCEPT ![task] = @ \/ tool = "save_artifact"]
  /\ writes' = IF tool # "read" /\ result = "done"
                 THEN writes \cup {<<task, pauses[task]>>} ELSE writes
  /\ pc' = back
  /\ UNCHANGED <<radarVars, kit, queue, status, cancel, finished, pauseVars, task,
                 tool, got, back, tracked, outerVars, missed, spent>>

-----------------------------------------------------------------------------
(* The end of a task.                                                       *)

Advances(from, to) == pc = from /\ ~Waiting /\ pc' = to

GoalReturns ==
  /\ Advances("goal", "usage")
  /\ Emit("event")
  /\ UNCHANGED <<radarVars, kit, queue, taskVars, pauseVars, task, tool, got, back,
                 tracked, outerVars, historyVars>>

Synthesize ==
  /\ Advances("usage", "check")
  /\ Emit("event")
  /\ UNCHANGED <<radarVars, kit, queue, taskVars, pauseVars, task, tool, got, back,
                 tracked, outerVars, historyVars>>

StoppedMidRun == HeedsStop(kit) /\ cancel[task]

CheckStop ==
  /\ pc = "check" /\ ~Waiting
  /\ IF StoppedMidRun
       THEN /\ status' = [status EXCEPT ![task] = "canceled"]
            /\ pc' = "complete" /\ UNCHANGED <<tool, back>>
       ELSE /\ UNCHANGED status
            /\ IF saved[task]
                 THEN pc' = "settle" /\ UNCHANGED <<tool, back>>
                 ELSE Calls("save_artifact", "settle")
  /\ UNCHANGED <<trackingVars, kit, queue, cancel, finished, spoilt, saved, pauseVars,
                 task, got, sent, tracked, outerVars, historyVars>>

SettleStatus ==
  /\ Advances("settle", "complete")
  /\ status' = [status EXCEPT ![task] = IF spoilt[task] THEN "blocked" ELSE "done"]
  /\ UNCHANGED <<trackingVars, kit, queue, cancel, finished, spoilt, saved, pauseVars,
                 task, tool, got, back, sent, tracked, outerVars, historyVars>>

(* A stop that came after the check still keeps the workflow from being     *)
(* completed.                                                               *)
CompleteTask ==
  /\ Advances("complete", "finished")
  /\ IF StoppedMidRun
       THEN UNCHANGED <<tracked, calls, sent>>
       ELSE FinishWorkflow(status[task])
  /\ UNCHANGED <<radarVars, kit, queue, taskVars, pauseVars, task, tool, got, back,
                 outerVars, historyVars>>

(* Mutant: a task that raises is not completed at the radar.                *)
GoalRaisesSilently ==
  /\ Advances("goal", "finished")
  /\ status' = [status EXCEPT ![task] = "failed"]
  /\ UNCHANGED <<tracked, calls, sent>>
  /\ UNCHANGED <<radarVars, kit, queue, cancel, finished, spoilt, saved, pauseVars, task,
                 tool, got, back, outerVars, historyVars>>

GoalRaises ==
  /\ Advances("goal", "finished")
  /\ status' = [status EXCEPT ![task] = "failed"]
  /\ FinishWorkflow("failed")
  /\ UNCHANGED <<radarVars, kit, queue, cancel, finished, spoilt, saved, pauseVars, task,
                 tool, got, back, outerVars, historyVars>>

EndTask ==
  /\ Advances("finished", "idle")
  /\ finished' = [finished EXCEPT ![task] = TRUE]
  /\ tool' = "read" /\ got' = FALSE /\ back' = "goal" /\ sent' = 0
  /\ UNCHANGED <<trackingVars, kit, queue, status, cancel, spoilt, saved, pauseVars,
                 task, tracked, outerVars, historyVars>>

WorkerStep ==
  \/ TakeTask \/ BeginGoal
  \/ \E name \in GoalTools : GoalCallsTool(name)
  \/ AnnouncePause \/ RequestApproval \/ Wake \/ Resume
  \/ \E result \in ToolResults(kit) : ExecuteTool(result)
  \/ GoalReturns \/ GoalRaises \/ Synthesize \/ CheckStop \/ SettleStatus
  \/ CompleteTask \/ EndTask

-----------------------------------------------------------------------------
(* Operators and users.                                                     *)

HandlerStart(t, kind) ==
  handlers' = handlers \cup {[task |-> t, kind |-> kind, pause |-> 0, stage |-> "find",
                              id |-> spent["verdict"] + spent["stop"]]}

Verdict(t, answer) ==
  /\ Spend("verdict")
  /\ approvals' = [approvals EXCEPT ![t] = IF answer = "approve" THEN @ + 1 ELSE @]
  /\ HandlerStart(t, answer)

(* A request is decided once, and the agent is told which task is released. *)
SettleApproval(r) == r \in requests /\ requests' = requests \ {r}
DecideApproval(r, answer) ==
  /\ SettleApproval(r)
  /\ Verdict(r[1], answer)
  /\ UNCHANGED <<trackingVars, kit, queue, taskVars, pauseVars, workerVars, shown,
                 writes, missed>>

(* The agent's own console, and the gateway's, show that a task waits.      *)
ConsoleDecides(t, answer) ==
  /\ status[t] = "awaiting_approval"
  /\ Verdict(t, answer)
  /\ UNCHANGED <<trackingVars, kit, queue, taskVars, pauseVars, workerVars, requests,
                 shown, writes, missed>>

(* stop: terminates the workflow, then asks the agent, where it can be asked.*)
StopTask(t) ==
  /\ status[t] # "absent" /\ Spend("stop")
  /\ TerminateWorkflow(t)
  /\ IF HasCancel(kit) THEN HandlerStart(t, "stop") ELSE UNCHANGED handlers
  /\ UNCHANGED <<calls, replies, execWorkflows, done, outcome, verdict, dropped, kit,
                 queue, taskVars, pauseVars, workerVars, requests, shown, approvals,
                 writes, missed>>

Moves(h, stage) == handlers' = (handlers \ {h}) \cup {[h EXCEPT !.stage = stage]}
Returns(h) == handlers' = handlers \ {h}
handlerFrame == <<trackingVars, kit, queue, finished, spoilt, saved, pauses, workerVars,
                  requests, shown, approvals, historyVars>>

(* approve_task, cancel_task: the event is looked up, the decision stored,  *)
(* the event set; a stop flags the task first and settles it last.          *)
FindEvent(h) ==
  /\ h.stage = "find"
  /\ cancel' = [cancel EXCEPT ![h.task] = @ \/ h.kind = "stop"]
  /\ IF event[h.task] # 0
       THEN handlers' = (handlers \ {h}) \cup
                          {[h EXCEPT !.stage = "write", !.pause = event[h.task]]}
       ELSE IF h.kind = "stop" THEN Moves(h, "look") ELSE Returns(h)
  /\ UNCHANGED <<handlerFrame, status, event, set, decision>>

WriteDecision(h) ==
  /\ h.stage = "write" /\ Moves(h, "set")
  /\ decision' = [decision EXCEPT ![h.task] = IF h.kind = "stop" THEN "deny" ELSE h.kind]
  /\ UNCHANGED <<handlerFrame, status, cancel, event, set>>

SetEvent(h) ==
  /\ h.stage = "set"
  /\ set' = set \cup {<<h.task, h.pause>>}
  /\ IF h.kind = "stop" THEN Moves(h, "look") ELSE Returns(h)
  /\ UNCHANGED <<handlerFrame, status, cancel, event, decision>>

LookAtStatus(h) ==
  /\ h.stage = "look"
  /\ IF status[h.task] \in {"queued", "running", "awaiting_approval"}
       THEN Moves(h, "settle") ELSE Returns(h)
  /\ UNCHANGED <<handlerFrame, status, cancel, event, set, decision>>

SettleCanceled(h) ==
  /\ h.stage = "settle" /\ Returns(h)
  /\ status' = [status EXCEPT ![h.task] = "canceled"]
  /\ UNCHANGED <<handlerFrame, cancel, event, set, decision>>

HandlerStep(h) ==
  \/ FindEvent(h) \/ WriteDecision(h) \/ SetEvent(h) \/ LookAtStatus(h)
  \/ SettleCanceled(h)

(* ask and status: the agent's own record is read first, the workflow's     *)
(* outcome and the live token budget after it. A task that waits for the    *)
(* write that ends it has its result already.                               *)
Terminal == {"done", "blocked", "failed", "awaiting_approval"}
HasResult(t) == status[t] = "done" \/ (status[t] = "awaiting_approval" /\ back = "settle")

ReadRecord(t) ==
  /\ shown[t] = None /\ status[t] \in Terminal /\ Spend("read")
  /\ shown' = [shown EXCEPT ![t] = IF status[t] = "blocked" THEN "blocked"
                                   ELSE IF HasResult(t) THEN "result" ELSE "empty"]
  /\ UNCHANGED <<trackingVars, kit, queue, taskVars, pauseVars, workerVars, handlers,
                 requests, approvals, writes, missed>>

Blocked(t) ==
  \/ flow[t] = "closed" /\ outcome[t] = "blocked"
  \/ verdict[t] \in {"start", "budget"}
  \/ shown[t] = "blocked"

ShowAnswer(t) ==
  /\ shown[t] \in {"result", "blocked", "empty"}
  /\ shown' = [shown EXCEPT ![t] = IF Blocked(t) THEN "block"
                                   ELSE IF @ = "result" THEN "answer" ELSE "nothing"]
  /\ UNCHANGED <<trackingVars, kit, queue, taskVars, pauseVars, workerVars, handlers,
                 requests, approvals, historyVars>>

(* The gateway runs in the radar's process, and a reading under way goes    *)
(* with it. Requests for approval are in the database, or were in memory.   *)
RestartRadar ==
  /\ Spend("fault") /\ RestartTracking
  /\ missed' = missed \cup {c.task : c \in calls}
  /\ requests' \in {requests, {}}
  /\ shown' = [t \in Task |-> IF shown[t] \in {"result", "blocked", "empty"} THEN None
                              ELSE shown[t]]
  /\ UNCHANGED <<kit, queue, taskVars, pauseVars, workerVars, handlers, approvals, writes>>

-----------------------------------------------------------------------------
kitVars == <<kit, queue, taskVars, pauseVars, workerVars, outerVars, historyVars>>
Radar == \E c \in calls : RadarStep(c) /\ UNCHANGED kitVars

(* An hour without an event passes while the goal itself runs, or when the  *)
(* agent no longer works on the task; its waits and calls take minutes.     *)
HourPasses(t) ==
  /\ \A c \in calls : c.task # t
  /\ pc = "goal" \/ (pc \in {"idle", "dead"} /\ finished[t])
Temporal ==
  \E t \in Task : /\ SeeDone(t) \/ CloseWorkflow(t) \/ (HourPasses(t) /\ IdleTimeout(t))
                 /\ UNCHANGED kitVars
Operator ==
  \/ \E r \in requests, answer \in {"approve", "deny"} : DecideApproval(r, answer)
  \/ \E t \in Task, answer \in {"approve", "deny"} : ConsoleDecides(t, answer)
User == \E t \in Task : SubmitTask(t) \/ StopTask(t) \/ ReadRecord(t) \/ ShowAnswer(t)
Fault == RestartRadar \/ \E c \in calls : GiveUp(c) \/ LoseCall(c)
Handlers == \E h \in handlers : HandlerStep(h)

Next == WorkerStep \/ Radar \/ Temporal \/ Operator \/ User \/ Fault \/ Handlers

(* Threads go on, the radar answers what it has been asked, and Temporal    *)
(* runs a workflow that can be run. Nobody has to decide, stop or ask.      *)
Spec == Init /\ [][Next]_vars /\ WF_vars(WorkerStep) /\ WF_vars(Radar)
             /\ WF_vars(Temporal)

-----------------------------------------------------------------------------
(* PROPERTIES *)

(* Each write that runs has used up an approval of its own: neither a late  *)
(* answer to an earlier pause, nor a deny, nor a stop, nor a timeout that   *)
(* races one of them, lets one approval release two writes                  *)
(* (awcp_kit.py call_tool, approve_task, cancel_task).                      *)
OneApprovalPerWrite ==
  \A t \in Task : Cardinality({w \in writes : w[1] = t}) <= approvals[t]

(* What a workflow has once been told as its outcome stays: whoever pops    *)
(* the task from exec_workflows is alone in finishing it, however blocks    *)
(* and the agent's own completion overlap at the radar's awaits             *)
(* (radar/api.py execution_event, execution_complete_ep).                   *)
VerdictStands ==
  [][\A t \in Task : done[t] => UNCHANGED <<done[t], outcome[t]>>]_vars

(* When a task has ended and nothing about it is under way, its workflow    *)
(* has been told - unless the user stopped it, or the agent gave up on one  *)
(* of its calls or could not place it, or the radar lost sight of the       *)
(* workflow: by a signal or a start that raised, or by a restart            *)
(* (awcp_kit.py _worker_loop; radar/api.py execution_complete_ep).          *)
OrphansExplained ==
  \A t \in Task :
    (finished[t] /\ ~done[t] /\ \A c \in calls : c.task # t)
      => flow[t] # "open" \/ cancel[t] \/ t \in missed \/ t \in dropped

(* A task that was submitted ends and a workflow that was started closes,  *)
(* whatever operators, users and the radar do or leave undone, in every    *)
(* bundle whose worker gets as far as its loop, and though the agent may   *)
(* have lost sight of the workflow (awcp_kit.py _worker_loop, call_tool;   *)
(* execution.py AgentExecutionWorkflow.run).                               *)
TaskAndWorkflowEnd ==
  \A t \in Task :
    (Survives(kit) /\ status[t] = "queued") \/ flow[t] = "open"
      ~> finished[t] /\ flow[t] \in {"none", "closed", "terminated"}

(* No answer is shown once the control plane has blocked the task it is of  *)
(* (gateway/user.py _apply_block).                                          *)
AnswerWithheld ==
  [][\A t \in Task : verdict[t] # None => (shown'[t] = "answer" => shown[t] = "answer")]_vars
=============================================================================
