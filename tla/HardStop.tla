------------------------------ MODULE HardStop ------------------------------
(***************************************************************************)
(* The hard stop of agents over their token budget, and its crash-recovery *)
(* journal (radar/api.py, layer 3; registry.freeze_journal).               *)
(*                                                                         *)
(* A local process is stopped with SIGSTOP, a remote agent by a directive  *)
(* posted to its control endpoint; what was stopped is remembered in       *)
(* tracked, mirrored, and written to the journal.  One reconciler thread   *)
(* stops and releases, threads of the pool release and remove what an      *)
(* operator removes, the main thread releases everything at shutdown.      *)
(***************************************************************************)
EXTENDS Naturals

CONSTANTS
  Agent,
  Process,          (* local processes, targets of SIGSTOP and SIGCONT      *)
  Endpoint,         (* control endpoints of remote agents                   *)
  None,
  Entries,          (* what the registry may say of each agent: its process *)
                    (* and its control endpoint, each of them or None       *)
  Metered,          (* agents whose model calls laminar sees                *)
  Thread,           (* threads that remove agents                           *)
  Limit             (* bound on how often each event of Event happens       *)

Target == Process \cup Endpoint
Event == {"register", "meter", "remove", "start"}
Kind == {"process", "remote"}
Actor == Thread \cup {"reconciler", "main"}

ASSUME TargetAssumption == None \notin Target /\ Process \cap Endpoint = {}
ASSUME EntriesAssumption ==
  Entries \in [Agent -> SUBSET [process : Process \cup {None},
                               endpoint : Endpoint \cup {None}]]
ASSUME MeteredAssumption == Metered \subseteq Agent
ASSUME ThreadAssumption == "reconciler" \notin Thread /\ "main" \notin Thread
ASSUME LimitAssumption == Limit \in [Event -> Nat]

NoEntry == [absent |-> TRUE]
NoRow == NoEntry
Stop == [kind : Kind, target : Target]
Idle == [op |-> "idle"]
Stopping == {"freeze", "suspend", "note", "mirror", "row"}
Releasing == {"continue", "forget", "unmirror", "unrow"}
Task ==
  {Idle}
    \cup [op : Stopping, agent : Agent, stop : Stop]
    \cup [op : Releasing, agent : Agent, stop : Stop, then : {"keep", "remove"},
          view : {"current", "overtaken"}]
    \cup [op : {"remove"}, agent : Agent]

VARIABLES
  radar,            (* "up", "stopping" or "down"                           *)
  registry,         (* agent -> its entry                                   *)
  over,             (* agents laminar finds over their budget               *)
  stopped,          (* targets that are stopped, whoever remembers it       *)
  tracked,          (* _token_suspended, _token_remote_stopped              *)
  mirror,           (* agents in _freeze_journal                            *)
  rows,             (* registry.freeze_journal                              *)
  task,             (* what each thread is in the middle of                 *)
  closing,          (* what the shutdown has yet to release                 *)
  spent,            (* how often each bounded event has happened            *)
  lost,             (* history: stops a fault has made the radar forget     *)
  unrecorded        (* history: stops a fault has kept out of the journal   *)
vars == <<radar, registry, over, stopped, tracked, mirror, rows, task, closing,
          spent, lost, unrecorded>>
books == <<tracked, mirror, rows>>
history == <<lost, unrecorded>>
environment == <<radar, registry, over, closing, spent>>

Spend(event) ==
  /\ spent[event] < Limit[event]
  /\ spent' = [spent EXCEPT ![event] = @ + 1]

Present(a) == registry[a] # NoEntry
Goto(th, next) == task' = [task EXCEPT ![th] = next]
Done(th) == Goto(th, Idle)
NothingTracked == [k \in Kind |-> [a \in Agent |-> None]]
Tracked(a) == \E k \in Kind : tracked[k][a] # None

Init ==
  /\ radar = "up"
  /\ registry = [a \in Agent |-> NoEntry]
  /\ over = {}
  /\ stopped = {}
  /\ tracked = NothingTracked
  /\ mirror = {}
  /\ rows = [a \in Agent |-> NoRow]
  /\ task = [th \in Actor |-> Idle]
  /\ closing = {}
  /\ spent = [event \in Event |-> 0]
  /\ lost = {}
  /\ unrecorded = {}

-----------------------------------------------------------------------------
(* The rest of the control plane                                           *)

Register(a) ==
  /\ radar = "up"
  /\ Spend("register")
  /\ \E e \in Entries[a] : registry' = [registry EXCEPT ![a] = e]
  /\ UNCHANGED <<radar, over, closing, stopped, books, task, history>>

(* Calls are metered, records leave the sliding window.                    *)
Meter(a) ==
  /\ radar # "down"
  /\ a \in Metered
  /\ Spend("meter")
  /\ over' = IF a \in over THEN over \ {a} ELSE over \cup {a}
  /\ UNCHANGED <<radar, registry, closing, stopped, books, task, history>>

Shared(p, a) == \E b \in Agent \ {a} : Present(b) /\ registry[b].process = p

(* A scan drops the entry it had made of a process that has registered on  *)
(* its own by now; such an entry has no control endpoint.                  *)
ScanFolds(a) ==
  /\ radar = "up"
  /\ Present(a)
  /\ registry[a].process # None
  /\ registry[a].endpoint = None
  /\ Shared(registry[a].process, a)
  /\ registry' = [registry EXCEPT ![a] = NoEntry]
  /\ UNCHANGED <<radar, over, closing, spent, stopped, books, task, history>>

-----------------------------------------------------------------------------
(* Stopping an agent: the reconciler's visit of an entry over its budget   *)

(* _token_enforce_stop: a process of its own, else the control endpoint,   *)
(* as the entry has them now.                                              *)
StopDecide(a) ==
  /\ radar # "down"
  /\ task["reconciler"] = Idle
  /\ Present(a)
  /\ a \in over
  /\ LET e == registry[a]
         alone == e.process # None /\ ~Shared(e.process, a)
     IN \/ /\ alone
           /\ Goto("reconciler", [op |-> "freeze", agent |-> a,
                                  stop |-> [kind |-> "process", target |-> e.process]])
        \/ /\ ~alone /\ e.endpoint # None
           /\ Goto("reconciler", [op |-> "suspend", agent |-> a,
                                  stop |-> [kind |-> "remote", target |-> e.endpoint]])
  /\ UNCHANGED <<environment, stopped, books, history>>

(* The stop is remembered; every release of the agent that is under way    *)
(* began before it.                                                        *)
Remember ==
  LET t == task["reconciler"]
  IN /\ tracked' = [tracked EXCEPT ![t.stop.kind][t.agent] = t.stop.target]
     /\ lost' = lost \ {t.stop.target}
     /\ task' = [th \in Actor |->
          IF th = "reconciler" THEN [t EXCEPT !.op = "mirror"]
          ELSE IF task[th].op \in Releasing /\ task[th].agent = t.agent
            THEN [task[th] EXCEPT !.view = "overtaken"] ELSE task[th]]

Known ==
  tracked[task["reconciler"].stop.kind][task["reconciler"].agent] # None

(* _token_suspend_process: check, SIGSTOP and note under one lock.         *)
Freeze ==
  /\ task["reconciler"].op = "freeze"
  /\ \/ /\ ~Known
        /\ stopped' = stopped \cup {task["reconciler"].stop.target}
        /\ Remember
     \/ Done("reconciler") /\ UNCHANGED <<stopped, tracked, lost>>
  /\ UNCHANGED <<environment, mirror, rows, unrecorded>>

(* _token_stop_remote posts the directive.  It may be refused, or be       *)
(* followed although its answer never arrives.                             *)
Suspend ==
  /\ task["reconciler"].op = "suspend"
  /\ LET target == task["reconciler"].stop.target
     IN \/ /\ ~Known
           /\ stopped' = stopped \cup {target}
           /\ \/ /\ Goto("reconciler", [task["reconciler"] EXCEPT !.op = "note"])
                 /\ UNCHANGED lost
              \/ Done("reconciler") /\ lost' = lost \cup {target}
        \/ Done("reconciler") /\ UNCHANGED <<stopped, lost>>
  /\ UNCHANGED <<environment, books, unrecorded>>

Note ==
  /\ task["reconciler"].op = "note"
  /\ Remember
  /\ UNCHANGED <<environment, stopped, mirror, rows, unrecorded>>

(* _journal_set: the mirror, then the row, whose failure nobody sees.      *)
JournalMirror ==
  /\ task["reconciler"].op = "mirror"
  /\ mirror' = mirror \cup {task["reconciler"].agent}
  /\ Goto("reconciler", [task["reconciler"] EXCEPT !.op = "row"])
  /\ UNCHANGED <<environment, stopped, tracked, rows, history>>

(* One row per agent: it replaces that of an earlier stop of another kind. *)
Journaled(a) == IF rows[a] = NoRow THEN {} ELSE {rows[a].target}

(* Mutant: the row of an earlier stop stays.                              *)
JournalRowKept ==
  /\ task["reconciler"].op = "row"
  /\ LET a == task["reconciler"].agent
         stop == task["reconciler"].stop
     IN \/ /\ rows' = [rows EXCEPT ![a] = IF @ = NoRow THEN stop ELSE @]
           /\ unrecorded' = (unrecorded \cup Journaled(a)) \ {stop.target}
        \/ unrecorded' = unrecorded \cup {stop.target} /\ UNCHANGED rows
  /\ Done("reconciler")
  /\ UNCHANGED <<environment, stopped, tracked, mirror, lost>>

JournalRow ==
  /\ task["reconciler"].op = "row"
  /\ LET a == task["reconciler"].agent
         stop == task["reconciler"].stop
     IN \/ /\ rows' = [rows EXCEPT ![a] = stop]
           /\ unrecorded' = (unrecorded \cup Journaled(a)) \ {stop.target}
        \/ unrecorded' = unrecorded \cup {stop.target} /\ UNCHANGED rows
  /\ Done("reconciler")
  /\ UNCHANGED <<environment, stopped, tracked, mirror, lost>>

-----------------------------------------------------------------------------
(* Releasing an agent: _token_enforce_resume, its process and then its     *)
(* control endpoint, whichever of them is tracked                          *)

Releases(a, kind, then) ==
  [op |-> "continue", agent |-> a, stop |-> [kind |-> kind, target |-> tracked[kind][a]],
   then |-> then, view |-> "current"]

(* Mutant: a remote stop is released that was never tracked.              *)
ReleaseRemoteAlways(a, then) == Releases(a, "remote", then)

ReleaseRemote(a, then) ==
  IF tracked["remote"][a] # None THEN Releases(a, "remote", then)
  ELSE IF then = "remove" THEN [op |-> "remove", agent |-> a]
  ELSE Idle

Release(a, then) ==
  IF tracked["process"][a] # None THEN Releases(a, "process", then)
  ELSE ReleaseRemote(a, then)

(* Mutant: agents that are gone are not visited.                          *)
ReleaseRegistered(a) ==
  /\ radar # "down"
  /\ task["reconciler"] = Idle
  /\ Tracked(a)
  /\ Present(a) /\ a \notin over
  /\ Goto("reconciler", Release(a, "keep"))
  /\ UNCHANGED <<environment, stopped, books, history>>

(* The reconciler visits what is tracked and has recovered or vanished.    *)
ReleaseRecovered(a) ==
  /\ radar # "down"
  /\ task["reconciler"] = Idle
  /\ Tracked(a)
  /\ ~Present(a) \/ a \notin over
  /\ Goto("reconciler", Release(a, "keep"))
  /\ UNCHANGED <<environment, stopped, books, history>>

(* DELETE /agents/{id} releases the agent first, then removes it.          *)
Deregister(th, a) ==
  /\ radar = "up"
  /\ task[th] = Idle
  /\ Spend("remove")
  /\ Goto(th, Release(a, "remove"))
  /\ UNCHANGED <<radar, registry, over, closing, stopped, books, history>>

ReleaseClosing(a) ==
  /\ radar = "stopping"
  /\ task["main"] = Idle
  /\ a \in closing
  /\ closing' = closing \ {a}
  /\ Goto("main", Release(a, "keep"))
  /\ UNCHANGED <<radar, registry, over, spent, stopped, books, history>>

(* What comes after the release of one kind.                               *)
AfterStop(t) ==
  IF t.stop.kind = "process" THEN ReleaseRemote(t.agent, t.then)
  ELSE IF t.then = "remove" THEN [op |-> "remove", agent |-> t.agent]
  ELSE Idle

(* SIGCONT, or the directive to resume, whose answer nobody looks at.      *)
Continue(th) ==
  /\ task[th].op = "continue"
  /\ LET target == task[th].stop.target
     IN \/ /\ stopped' = stopped \ {target}
           /\ lost' = lost \ {target}
           /\ unrecorded' = unrecorded \ {target}
        \/ /\ target \in Endpoint
           /\ lost' = lost \cup {target}
           /\ UNCHANGED <<stopped, unrecorded>>
  /\ Goto(th, [task[th] EXCEPT !.op = "forget"])
  /\ UNCHANGED <<environment, books>>

(* Mutant: the other stop of the agent is forgotten as well.              *)
ForgetBoth(th) ==
  /\ task[th].op = "forget"
  /\ LET t == task[th]
     IN /\ tracked' = [k \in Kind |-> [tracked[k] EXCEPT ![t.agent] = None]]
        /\ lost' = IF t.view = "overtaken" THEN lost \cup ({tracked[t.stop.kind][t.agent]} \ {None}) ELSE lost
  /\ Goto(th, [task[th] EXCEPT !.op = "unmirror"])
  /\ UNCHANGED <<environment, stopped, mirror, rows, unrecorded>>

(* Whatever stop of the agent is tracked by now is forgotten.              *)
Forget(th) ==
  /\ task[th].op = "forget"
  /\ LET t == task[th]
     IN /\ tracked' = [tracked EXCEPT ![t.stop.kind][t.agent] = None]
        /\ lost' = IF t.view = "overtaken" THEN lost \cup ({tracked[t.stop.kind][t.agent]} \ {None}) ELSE lost
  /\ Goto(th, [task[th] EXCEPT !.op = "unmirror"])
  /\ UNCHANGED <<environment, stopped, mirror, rows, unrecorded>>

(* _journal_clear: without a mirror entry the row is left alone.           *)
JournalUnmirror(th) ==
  /\ task[th].op = "unmirror"
  /\ mirror' = mirror \ {task[th].agent}
  /\ Goto(th, IF task[th].agent \in mirror THEN [task[th] EXCEPT !.op = "unrow"]
              ELSE AfterStop(task[th]))
  /\ UNCHANGED <<environment, stopped, tracked, rows, history>>

JournalUnrow(th) ==
  /\ task[th].op = "unrow"
  /\ LET t == task[th]
     IN \/ /\ rows' = [rows EXCEPT ![t.agent] = NoRow]
           /\ unrecorded' = IF t.view = "overtaken" THEN unrecorded \cup Journaled(t.agent)
                            ELSE unrecorded \cup (Journaled(t.agent) \ {t.stop.target})
        \/ UNCHANGED <<rows, unrecorded>>
     /\ Goto(th, AfterStop(t))
  /\ UNCHANGED <<environment, stopped, tracked, mirror, lost>>

Remove(th) ==
  /\ task[th].op = "remove"
  /\ registry' = [registry EXCEPT ![task[th].agent] = NoEntry]
  /\ Done(th)
  /\ UNCHANGED <<radar, over, closing, spent, stopped, books, history>>

-----------------------------------------------------------------------------
(* The process of the radar                                                *)

(* The requests in flight are answered before the lifespan ends; a pass of *)
(* the reconciler goes on in its thread, cancelled or not.                 *)
Shutdown ==
  /\ radar = "up"
  /\ \A th \in Thread : task[th] = Idle
  /\ radar' = "stopping"
  /\ closing' = {a \in Agent : Tracked(a)}
  /\ UNCHANGED <<registry, over, spent, stopped, books, task, history>>

(* Budgets, tracked stops and the mirror live in memory.                   *)
Die ==
  /\ radar' = "down"
  /\ over' = {}
  /\ tracked' = NothingTracked
  /\ mirror' = {}
  /\ closing' = {}
  /\ task' = [th \in Actor |-> Idle]
  /\ UNCHANGED <<registry, spent, stopped, rows>>

Exit ==
  /\ radar = "stopping"
  /\ closing = {}
  /\ \A th \in Actor : task[th] = Idle
  /\ Die
  /\ UNCHANGED history

(* Stops that are applied and not yet in the journal.                      *)
Window ==
  IF task["reconciler"].op \in {"note", "mirror", "row"}
    THEN {task["reconciler"].stop.target} ELSE {}

Crash ==
  /\ radar # "down"
  /\ Die
  /\ unrecorded' = unrecorded \cup Window
  /\ UNCHANGED lost

(* _recover_orphaned_freezes: releases what the journal holds and drops    *)
(* every row, also those of agents that could not be reached; if the       *)
(* journal cannot be read it does nothing.                                 *)
InJournal == UNION {Journaled(a) : a \in Agent}

Start ==
  /\ radar = "down"
  /\ Spend("start")
  /\ radar' = "up"
  /\ \/ \E unreached \in SUBSET (InJournal \cap Endpoint) :
          LET released == InJournal \ unreached
          IN /\ stopped' = stopped \ released
             /\ lost' = (lost \cup unrecorded \cup unreached) \ released
             /\ rows' \in {rows, [a \in Agent |-> NoRow]}
     \/ /\ lost' = lost \cup unrecorded \cup InJournal
        /\ UNCHANGED <<stopped, rows>>
  /\ unrecorded' = {}
  /\ UNCHANGED <<registry, over, tracked, mirror, task, closing>>

-----------------------------------------------------------------------------
Reconcile ==
  \/ \E a \in Agent : StopDecide(a) \/ ReleaseRecovered(a)
  \/ Freeze \/ Suspend \/ Note \/ JournalMirror \/ JournalRow

ReleaseStep(th) ==
  \/ Continue(th) \/ Forget(th)
  \/ JournalUnmirror(th) \/ JournalUnrow(th) \/ Remove(th)

Next ==
  \/ \E a \in Agent : Register(a) \/ ScanFolds(a) \/ Meter(a) \/ ReleaseClosing(a)
  \/ \E th \in Thread, a \in Agent : Deregister(th, a)
  \/ Reconcile
  \/ \E th \in Actor : ReleaseStep(th)
  \/ Shutdown \/ Exit \/ Crash \/ Start

Spec == Init /\ [][Next]_vars

-----------------------------------------------------------------------------
(* The bookkeeping, the journal and what every thread holds have their     *)
(* types.                                                                  *)
TypeOK ==
  /\ radar \in {"up", "stopping", "down"}
  /\ registry \in [Agent -> (UNION {Entries[a] : a \in Agent}) \cup {NoEntry}]
  /\ over \subseteq Agent /\ closing \subseteq Agent /\ mirror \subseteq Agent
  /\ stopped \subseteq Target /\ lost \subseteq Target /\ unrecorded \subseteq Target
  /\ tracked \in [Kind -> [Agent -> Target \cup {None}]]
  /\ rows \in [Agent -> Stop \cup {NoRow}]
  /\ task \in [Actor -> Task]
  /\ spent \in [Event -> Nat]

TrackedTarget(t) == \E k \in Kind, a \in Agent : tracked[k][a] = t

(* While the radar runs it knows every target it has stopped, except those *)
(* whose stop or resume directive went unanswered, those a slower release  *)
(* of the same agent made it forget, and those recovery could not release. *)
StopsTracked ==
  radar # "down" =>
    \A t \in stopped : TrackedTarget(t) \/ t \in lost \/ t \in Window

(* "Every stop WE apply is recorded in registry.freeze_journal": it is,    *)
(* but for the moment between the stop and its row, a row the database     *)
(* refused, and a row that another stop or release of the agent replaced.  *)
StopsJournaled ==
  \A t \in stopped : t \in InJournal \cup lost \cup unrecorded \cup Window

(* A target stays stopped only for an agent that is registered and over    *)
(* its budget (_token_reconcile_once: "release whatever recovered or       *)
(* vanished").                                                             *)
Wanted(t) == \E k \in Kind, a \in Agent : tracked[k][a] = t /\ Present(a) /\ a \in over

RecoveredReleased ==
  \A t \in Target :
    t \in stopped ~> \/ t \notin stopped
                    \/ Wanted(t) \/ t \in lost
                    \/ radar # "up"

(* A thread that is in the middle of something goes on; each pass of the   *)
(* reconciler visits all that is tracked.                                  *)
Fairness ==
  /\ \A th \in Actor : WF_vars(ReleaseStep(th))
  /\ WF_vars(Freeze \/ Suspend \/ Note \/ JournalMirror \/ JournalRow)
  /\ \A a \in Agent : SF_vars(ReleaseRecovered(a))

FairSpec == Spec /\ Fairness
=============================================================================
