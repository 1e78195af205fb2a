------------------------------ MODULE Launcher ------------------------------
(***************************************************************************)
(* How an agent's process is started, found and stopped. Two programs do   *)
(* it, neither of which knows of the other: the user gateway, which starts *)
(* an agent for a question (gateway/agents_fs.py, gateway/user.py), and    *)
(* the control panel of the bundles (control_panel.py).                    *)
(*                                                                         *)
(* Both run run.sh, which installs what the agent needs before there is    *)
(* any process that pgrep finds by name. The agent's port is fixed: a      *)
(* second process ends when it cannot bind it. Both take the first process *)
(* pgrep names, the one with the lowest number, and processes are numbered *)
(* as they begin (the numbers are taken not to wrap around).               *)
(***************************************************************************)
EXTENDS Naturals, FiniteSets

CONSTANTS
  Submitter,        (* questions for this agent                             *)
  MaxPids,          (* bound on runs of run.sh                              *)
  MaxClicks         (* bound on starts and stops at the panel               *)

ASSUME PidAssumption == MaxPids \in Nat

VARIABLES
  shells,           (* runs of run.sh that have not begun the agent yet     *)
  process,          (* what has become of each process                      *)
  submit,           (* where each question has got to                       *)
  holder,           (* the process that took its task, 0 for none           *)
  tracked,            (* the question was answered with a workflow to follow  *)
  starting,         (* starts at the panel that saw no process              *)
  clicks
launchVars == <<shells, process, submit, holder, tracked, starting, clicks>>

Pid == 1..MaxPids

LauncherInit ==
  /\ shells = 0 /\ process = [p \in Pid |-> "none"]
  /\ submit = [s \in Submitter |-> "idle"]
  /\ holder = [s \in Submitter |-> 0] /\ tracked = [s \in Submitter |-> FALSE]
  /\ starting = 0 /\ clicks = 0

-----------------------------------------------------------------------------
(* Processes: run.sh, uvicorn.                                              *)

Begun == {p \in Pid : process[p] # "none"}
Pids == {p \in Pid : process[p] \in {"booting", "listening"}}
Listening == {p \in Pid : process[p] = "listening"}

BeginProcess ==
  /\ shells > 0
  /\ \E p \in Pid \ Begun :
       /\ \A q \in Pid : q < p => q \in Begun
       /\ process' = [process EXCEPT ![p] = "booting"]
  /\ shells' = shells - 1
  /\ UNCHANGED <<submit, holder, tracked, starting, clicks>>

AbortShell ==
  /\ shells > 0 /\ shells' = shells - 1
  /\ UNCHANGED <<process, submit, holder, tracked, starting, clicks>>

BindPort(p) ==
  /\ process[p] = "booting"
  /\ process' = [process EXCEPT ![p] = IF Listening = {} THEN "listening" ELSE "gone"]
  /\ UNCHANGED <<shells, submit, holder, tracked, starting, clicks>>

EndProcess(p) ==
  /\ p \in Pids
  /\ process' = [process EXCEPT ![p] = "gone"]
  /\ UNCHANGED <<shells, submit, holder, tracked, starting, clicks>>

RunScript == shells + Cardinality(Begun) + starting < MaxPids

-----------------------------------------------------------------------------
(* What both programs see: _pids, _listening_port, running_state.           *)

(* Mutant: the newest process is looked at.                                 *)
NewestHasPort ==
  \E p \in Listening : \A q \in Pids : q <= p

HasPort ==
  \E p \in Listening : \A q \in Pids : p <= q

-----------------------------------------------------------------------------
(* The gateway: submit, status.                                             *)

Moves(s, here, there) ==
  /\ submit[s] = here /\ submit' = [submit EXCEPT ![s] = there]

(* _ensure_up: the agent runs, or may be started.                           *)
LookForAgent(s) ==
  /\ Moves(s, "idle", IF HasPort THEN "info" ELSE "start")
  /\ UNCHANGED <<shells, process, holder, tracked, starting, clicks>>

(* agents_fs.start: its sources are instrumented first, and it is not       *)
(* started when they cannot be; nobody looks again for what else has begun. *)
StartAgent(s) ==
  /\ Moves(s, "start", "wait") /\ RunScript
  /\ shells' = shells + 1
  /\ UNCHANGED <<process, holder, tracked, starting, clicks>>

RefuseStart(s) ==
  /\ Moves(s, "start", "refused")
  /\ UNCHANGED <<shells, process, holder, tracked, starting, clicks>>

(* _wait_until_up: the port, or the end of START_TIMEOUT.                   *)
AgentComesUp(s) ==
  /\ HasPort /\ Moves(s, "wait", "info")
  /\ UNCHANGED <<shells, process, holder, tracked, starting, clicks>>

AgentStaysAway(s) ==
  /\ ~HasPort /\ Moves(s, "wait", "failed")
  /\ UNCHANGED <<shells, process, holder, tracked, starting, clicks>>

(* _fetch_info: without an answer the question has no workflow to follow.   *)
FetchInfo(s, heard) ==
  /\ heard => Listening # {}
  /\ Moves(s, "info", "post")
  /\ tracked' = [tracked EXCEPT ![s] = heard]
  /\ UNCHANGED <<shells, process, holder, starting, clicks>>

(* _submit_task: whoever listens by now takes the task; its answer may be   *)
(* lost, and then the question fails while its task runs.                   *)
PostTask(s, heard) ==
  /\ \E p \in Listening : holder' = [holder EXCEPT ![s] = p]
  /\ Moves(s, "post", IF heard THEN "done" ELSE "failed")
  /\ UNCHANGED <<shells, process, tracked, starting, clicks>>

NobodyThere(s) ==
  /\ Listening = {} /\ Moves(s, "post", "failed")
  /\ UNCHANGED <<shells, process, holder, tracked, starting, clicks>>

(* _fetch_task: the task is asked for at the process that is found by now.  *)
TaskFound(s) == submit[s] = "done" /\ HasPort /\ process[holder[s]] = "listening"

(* status: the agent's own record, else what its workflow has come to.      *)
StatusShows(s) ==
  CASE TaskFound(s)               -> "record"
    [] ~TaskFound(s) /\ tracked[s] -> "timeline"
    [] OTHER                      -> "pending"

-----------------------------------------------------------------------------
(* The control panel, with a _pids of its own.                              *)

PanelSees == Pids # {}
Click == clicks < MaxClicks /\ clicks' = clicks + 1

PanelLooks ==
  /\ Click /\ ~PanelSees /\ RunScript
  /\ starting' = starting + 1
  /\ UNCHANGED <<shells, process, submit, holder, tracked>>

PanelStarts ==
  /\ starting > 0
  /\ starting' = starting - 1 /\ shells' = shells + 1
  /\ UNCHANGED <<process, submit, holder, tracked, clicks>>

(* pkill: by name, so a run.sh that is still installing is not met.         *)
PanelStops ==
  /\ Click
  /\ process' = [p \in Pid |-> IF p \in Pids THEN "gone" ELSE process[p]]
  /\ UNCHANGED <<shells, submit, holder, tracked, starting>>

LauncherNext ==
  \/ BeginProcess \/ AbortShell
  \/ \E p \in Pid : BindPort(p) \/ EndProcess(p)
  \/ \E s \in Submitter :
       \/ LookForAgent(s) \/ StartAgent(s) \/ RefuseStart(s)
       \/ AgentComesUp(s) \/ AgentStaysAway(s)
       \/ \E heard \in BOOLEAN : FetchInfo(s, heard) \/ PostTask(s, heard)
       \/ NobodyThere(s)
  \/ PanelLooks \/ PanelStarts \/ PanelStops

LauncherSpec == LauncherInit /\ [][LauncherNext]_launchVars

-----------------------------------------------------------------------------
(* Whoever else starts the agent meanwhile: a task that status shows the    *)
(* record of is shown with it for as long as the process that took it       *)
(* lives. Two processes of one agent may be there at a time, but the newer  *)
(* of them never hides the older, and it cannot take its port               *)
(* (running_state, status).                                                 *)
FoundStaysFound ==
  [][\A s \in Submitter :
       StatusShows(s) = "record" /\ process'[holder[s]] # "gone"
         => StatusShows(s)' = "record"]_launchVars
=============================================================================
