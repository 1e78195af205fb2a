------------------------- MODULE ExecutionTracking --------------------------
(***************************************************************************)
(* How the control plane follows a task while an agent runs it: the calls  *)
(* to /tasks/execution/{start,event,complete} (radar/api.py), which are    *)
(* coroutines split at their awaits, and the AgentExecutionWorkflow that   *)
(* records the task in Temporal (radar/temporal/workflows/execution.py).   *)
(* An event signalled to the workflow shows as an activity of it and       *)
(* changes nothing else, so the events a workflow still has to show are    *)
(* left out.                                                               *)
(*                                                                         *)
(* The agents that send the calls, and the gateway that stops and shows a  *)
(* task, are in GovernedTask.                                              *)
(***************************************************************************)
EXTENDS Naturals

CONSTANTS Task
ASSUME TaskAssumption == Task # {}

Status == {"done", "blocked", "failed", "canceled"}
None == "none"

VARIABLES
  calls,          (* requests of the agents the radar has not answered      *)
  replies,        (* what the start of a task has been answered             *)
  execWorkflows,  (* STATE["exec_workflows"]                                *)
  flow,           (* the task's workflow: none, open, completing, closed    *)
                  (* or terminated                                          *)
  done,           (* self._done                                             *)
  outcome,        (* self._outcome                                          *)
  verdict,        (* history: what a call of the task was blocked for       *)
  dropped         (* history: tasks whose workflow the radar may have left  *)
                  (* open, untold and forgotten                             *)
trackingVars == <<calls, replies, execWorkflows, flow, done, outcome, verdict, dropped>>

(* A call: the n-th of its task; waited says that the agent still listens,  *)
(* signal what it will tell the workflow once that is known.                *)
Request(t, op, n, signal) ==
  [task |-> t, op |-> op, n |-> n, stage |-> "sent", waited |-> TRUE, signal |-> signal]
InitTracking ==
  /\ calls = {}
  /\ replies = [t \in Task |-> None]
  /\ execWorkflows = {}
  /\ flow = [t \in Task |-> "none"]
  /\ done = [t \in Task |-> FALSE]
  /\ outcome = [t \in Task |-> None]
  /\ verdict = [t \in Task |-> None]
  /\ dropped = {}

-----------------------------------------------------------------------------
(* The radar.                                                               *)

workflowVars == <<flow, done, outcome>>

Answered(c) == calls' = calls \ {c}
Becomes(c, stage, signal) ==
  calls' = (calls \ {c}) \cup {[c EXCEPT !.stage = stage, !.signal = signal]}
Told(c, reply) ==
  replies' = IF c.waited THEN [replies EXCEPT ![c.task] = reply] ELSE replies

(* A start: refused when the agent is over its token budget, refused when   *)
(* Temporal cannot be used, else start_workflow is awaited.                 *)
RefuseStart(c) ==
  /\ c.op = "start" /\ c.stage = "sent"
  /\ Answered(c) /\ Told(c, "refused")
  /\ verdict' = [verdict EXCEPT ![c.task] = "start"]
  /\ UNCHANGED <<execWorkflows, workflowVars, dropped>>

AwaitTemporal(c) ==
  /\ c.op = "start" /\ c.stage = "sent"
  /\ Becomes(c, "temporal", None)
  /\ UNCHANGED <<replies, execWorkflows, workflowVars, verdict, dropped>>

StartFails(c) ==
  /\ c.stage = "temporal"
  /\ Answered(c) /\ Told(c, "refused")
  /\ UNCHANGED <<execWorkflows, workflowVars, verdict, dropped>>

(* The workflow was started, and start_workflow raised all the same.        *)
StartUnheard(c) ==
  /\ c.stage = "temporal" /\ flow[c.task] = "none"
  /\ Answered(c) /\ Told(c, "refused")
  /\ flow' = [flow EXCEPT ![c.task] = "open"]
  /\ dropped' = dropped \cup {c.task}
  /\ UNCHANGED <<execWorkflows, done, outcome, verdict>>

StartWorkflow(c) ==
  /\ c.stage = "temporal" /\ flow[c.task] = "none"
  /\ Answered(c) /\ Told(c, "started")
  /\ flow' = [flow EXCEPT ![c.task] = "open"]
  /\ execWorkflows' = execWorkflows \cup {c.task}
  /\ UNCHANGED <<done, outcome, verdict, dropped>>

(* What is popped is what the finish signal of a block goes to.             *)
Block(c, cause) ==
  /\ verdict' = [verdict EXCEPT ![c.task] = IF @ \in {None, "forgotten"} THEN cause ELSE @]
  /\ execWorkflows' = execWorkflows \ {c.task}
  /\ IF c.task \in execWorkflows THEN Becomes(c, "signal", "blocked") ELSE Answered(c)
  /\ UNCHANGED <<replies, workflowVars, dropped>>

(* The signal of an event changes nothing, whether there is a workflow for  *)
(* it or not.                                                               *)
Forward(c) ==
  /\ Answered(c)
  /\ UNCHANGED <<replies, execWorkflows, workflowVars, verdict, dropped>>

(* A tool's event passes the guard hooks, then waits for the OPA agent's    *)
(* tier; any event can find the token budget exhausted.                     *)
GuardVetoes(c) == c.op = "tool" /\ c.stage = "sent" /\ Block(c, "tool")
AwaitTier(c) ==
  /\ c.op = "tool" /\ c.stage = "sent"
  /\ Becomes(c, "tier", None)
  /\ UNCHANGED <<replies, execWorkflows, workflowVars, verdict, dropped>>
TierBlocks(c) == c.stage = "tier" /\ Block(c, "tool")

PastPolicy(c) == c.stage = "tier" \/ (c.op = "event" /\ c.stage = "sent")
BudgetBlocks(c) == PastPolicy(c) /\ Block(c, "budget")
ForwardEvent(c) == PastPolicy(c) /\ Forward(c)

(* Mutant: completing a task reads its workflow and leaves it in the map.   *)
CompleteKeeps(c) ==
  /\ c.op = "complete" /\ c.stage = "sent"
  /\ execWorkflows' = execWorkflows
  /\ IF c.task \in execWorkflows THEN Becomes(c, "signal", c.signal) ELSE Answered(c)
  /\ UNCHANGED <<replies, workflowVars, verdict, dropped>>

CompleteExecution(c) ==
  /\ c.op = "complete" /\ c.stage = "sent"
  /\ execWorkflows' = execWorkflows \ {c.task}
  /\ IF c.task \in execWorkflows THEN Becomes(c, "signal", c.signal) ELSE Answered(c)
  /\ UNCHANGED <<replies, workflowVars, verdict, dropped>>

-----------------------------------------------------------------------------
(* Temporal.                                                                *)

Running(t) == flow[t] \in {"open", "completing"}

Finish(c) ==
  /\ c.stage = "signal" /\ Answered(c)
  /\ IF Running(c.task)
       THEN /\ done' = [done EXCEPT ![c.task] = TRUE]
            /\ outcome' = [outcome EXCEPT ![c.task] = c.signal]
       ELSE UNCHANGED <<done, outcome>>
  /\ UNCHANGED <<replies, execWorkflows, flow, verdict, dropped>>

(* The signal raised, which is only logged: the task has been popped, and   *)
(* nobody signals its workflow again.                                       *)
FinishFails(c) ==
  /\ c.stage = "signal" /\ Answered(c)
  /\ dropped' = dropped \cup {c.task}
  /\ UNCHANGED <<replies, execWorkflows, workflowVars, verdict>>

(* The workflow wraps up when it has been told to finish, or when an hour   *)
(* has brought nothing, and returns what it has been told by then.          *)
WrapUp(t) ==
  /\ flow[t] = "open"
  /\ flow' = [flow EXCEPT ![t] = "completing"]
  /\ UNCHANGED <<calls, replies, execWorkflows, done, outcome, verdict, dropped>>

SeeDone(t) == done[t] /\ WrapUp(t)

IdleTimeout(t) == ~done[t] /\ WrapUp(t)

CloseWorkflow(t) ==
  /\ flow[t] = "completing"
  /\ flow' = [flow EXCEPT ![t] = "closed"]
  /\ UNCHANGED <<calls, replies, execWorkflows, done, outcome, verdict, dropped>>

(* handle.terminate, on behalf of the gateway.                              *)
TerminateWorkflow(t) ==
  flow' = [flow EXCEPT ![t] = IF Running(t) THEN "terminated" ELSE @]

(* The radar's process ends and starts again: the map, the calls it had and *)
(* the token budgets were in its memory, and nothing looks for workflows    *)
(* that run. A start on its way to Temporal may have got there.             *)
Starting == {c.task : c \in {d \in calls : d.stage = "temporal" /\ flow[d.task] = "none"}}
Telling == {c.task : c \in {d \in calls : d.stage = "signal"}}
RestartTracking ==
  \E begun \in SUBSET Starting :
    /\ calls' = {} /\ execWorkflows' = {}
    /\ flow' = [t \in Task |-> IF t \in begun THEN "open" ELSE flow[t]]
    /\ dropped' = dropped \cup execWorkflows \cup Telling \cup begun
    /\ verdict' = [t \in Task |-> IF verdict[t] \in {"start", "budget"} THEN "forgotten"
                                  ELSE verdict[t]]
    /\ UNCHANGED <<replies, done, outcome>>

RadarStep(c) ==
  \/ RefuseStart(c) \/ AwaitTemporal(c) \/ StartFails(c) \/ StartWorkflow(c)
  \/ StartUnheard(c)
  \/ GuardVetoes(c) \/ AwaitTier(c) \/ TierBlocks(c)
  \/ BudgetBlocks(c) \/ ForwardEvent(c) \/ CompleteExecution(c)
  \/ Finish(c) \/ FinishFails(c)
=============================================================================
