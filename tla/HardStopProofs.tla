--------------------------- MODULE HardStopProofs ---------------------------
(***************************************************************************)
(* What HardStop keeps for any number of agents, processes, endpoints and  *)
(* threads: the radar knows what it has stopped, and the journal holds it. *)
(***************************************************************************)
EXTENDS HardStop, TLAPS

R == task["reconciler"]

(* A thread has resumed the target for the agent and is about to forget    *)
(* it; no later stop of the agent has been remembered since.               *)
Past == {"forget", "unmirror", "unrow"}
Resumed(a, t) ==
  \E th \in Actor : /\ task[th].op \in Past
                    /\ task[th].view = "current"
                    /\ task[th].agent = a
                    /\ task[th].stop.target = t

(* A release under way that no stop has overtaken forgets its own stop.    *)
ReleasesOwn ==
  \A th \in Actor :
    task[th].op \in {"continue", "forget"} /\ task[th].view = "current" =>
      tracked[task[th].stop.kind][task[th].agent] \in {None, task[th].stop.target}

NoteUntracked == R.op = "note" => tracked[R.stop.kind][R.agent] = None

ResumedStays ==
  R.op \in {"mirror", "row"} /\ Resumed(R.agent, R.stop.target) =>
    R.stop.target \notin stopped \/ R.stop.target \in lost

DownIdle == radar = "down" => \A th \in Actor : task[th] = Idle

(* A stop that only a row or an entry about to be dropped still holds does *)
(* not count.                                                              *)
TrackedInv ==
  radar # "down" =>
    \A t \in stopped :
      \/ t \in lost
      \/ R.op = "note" /\ R.stop.target = t
      \/ \E k \in Kind, a \in Agent : tracked[k][a] = t /\ ~Resumed(a, t)

JournaledInv ==
  \A t \in stopped :
    \/ t \in lost \cup unrecorded \cup Window
    \/ \E a \in Agent : rows[a] # NoRow /\ rows[a].target = t /\ ~Resumed(a, t)

StopInv ==
  /\ TypeOK
  /\ ReleasesOwn
  /\ NoteUntracked
  /\ ResumedStays
  /\ DownIdle
  /\ TrackedInv
  /\ JournaledInv

-----------------------------------------------------------------------------
(* Types                                                                   *)

LEMMA EntryParts ==
  ASSUME TypeOK, NEW a \in Agent, Present(a)
  PROVE  /\ registry[a].process \in Process \cup {None}
         /\ registry[a].endpoint \in Endpoint \cup {None}
<1>1. registry[a] \in UNION {Entries[b] : b \in Agent}
  BY DEF TypeOK, Present
<1>2. PICK b \in Agent : registry[a] \in Entries[b]
  BY <1>1
<1>3. Entries[b] \subseteq [process : Process \cup {None}, endpoint : Endpoint \cup {None}]
  BY EntriesAssumption
<1>4. QED BY <1>2, <1>3

(* What a thread is in the middle of has the parts its step needs.         *)
LEMMA TaskParts ==
  ASSUME TypeOK, NEW th \in Actor
  PROVE  /\ task[th].op \in Stopping =>
              task[th] \in [op : Stopping, agent : Agent, stop : Stop]
         /\ task[th].op \in Releasing =>
              task[th] \in [op : Releasing, agent : Agent, stop : Stop,
                            then : {"keep", "remove"}, view : {"current", "overtaken"}]
         /\ task[th].op = "remove" => task[th].agent \in Agent
<1>1. task[th] \in Task
  BY DEF TypeOK
<1>2. CASE task[th] = Idle
  BY <1>2 DEF Idle, Stopping, Releasing
<1>3. CASE task[th] \in [op : Stopping, agent : Agent, stop : Stop]
  BY <1>3 DEF Stopping, Releasing
<1>4. CASE task[th] \in [op : Releasing, agent : Agent, stop : Stop,
                         then : {"keep", "remove"}, view : {"current", "overtaken"}]
  BY <1>4 DEF Stopping, Releasing
<1>5. CASE task[th] \in [op : {"remove"}, agent : Agent]
  BY <1>5 DEF Stopping, Releasing
<1>6. QED BY <1>1, <1>2, <1>3, <1>4, <1>5 DEF Task

LEMMA StopParts ==
  ASSUME NEW stop \in Stop
  PROVE  stop.kind \in Kind /\ stop.target \in Target /\ stop.target # None
BY TargetAssumption DEF Stop

LEMMA NoRowNoStop == NoRow \notin Stop
<1>1. SUFFICES ASSUME NEW stop \in Stop, stop = NoRow
               PROVE  FALSE
  OBVIOUS
<1>2. DOMAIN stop = {"kind", "target"} /\ DOMAIN NoRow = {"absent"}
  BY DEF Stop, NoRow, NoEntry
<1>3. QED BY <1>1, <1>2

LEMMA ReleasesType ==
  ASSUME TypeOK, NEW a \in Agent, NEW k \in Kind, NEW then \in {"keep", "remove"},
         tracked[k][a] # None
  PROVE  Releases(a, k, then) \in Task
<1>1. tracked[k][a] \in Target
  BY DEF TypeOK
<1>2. [kind |-> k, target |-> tracked[k][a]] \in Stop
  BY <1>1 DEF Stop
<1>3. QED BY <1>2 DEF Releases, Task, Releasing

(* A release of an agent is in Task, and begins with a stop tracked for it.*)
LEMMA ReleaseRemoteType ==
  ASSUME TypeOK, NEW a \in Agent, NEW then \in {"keep", "remove"}
  PROVE  /\ ReleaseRemote(a, then) \in Task
         /\ \/ ReleaseRemote(a, then).op \in {"idle", "remove"}
            \/ ReleaseRemote(a, then) = Releases(a, "remote", then)
<1>1. CASE tracked["remote"][a] # None
  BY <1>1, ReleasesType DEF ReleaseRemote, Kind
<1>2. CASE tracked["remote"][a] = None
  <2>1. ReleaseRemote(a, then) \in {Idle, [op |-> "remove", agent |-> a]}
    BY <1>2 DEF ReleaseRemote
  <2>2. [op |-> "remove", agent |-> a] \in Task /\ Idle \in Task
    BY DEF Task
  <2>3. ReleaseRemote(a, then).op \in {"idle", "remove"}
    BY <2>1 DEF Idle
  <2>4. QED BY <2>1, <2>2, <2>3
<1>3. QED BY <1>1, <1>2

LEMMA ReleaseType ==
  ASSUME TypeOK, NEW a \in Agent, NEW then \in {"keep", "remove"}
  PROVE  /\ Release(a, then) \in Task
         /\ \/ Release(a, then).op \in {"idle", "remove"}
            \/ \E k \in Kind : Release(a, then) = Releases(a, k, then)
<1>1. CASE tracked["process"][a] # None
  BY <1>1, ReleasesType DEF Release, Kind
<1>2. CASE tracked["process"][a] = None
  BY <1>2, ReleaseRemoteType DEF Release, Kind
<1>3. QED BY <1>1, <1>2

LEMMA AfterStopType ==
  ASSUME TypeOK, NEW th \in Actor, task[th].op \in Releasing
  PROVE  /\ AfterStop(task[th]) \in Task
         /\ \/ AfterStop(task[th]).op \in {"idle", "remove"}
            \/ AfterStop(task[th]) = Releases(task[th].agent, "remote", task[th].then)
<1>1. task[th].agent \in Agent /\ task[th].then \in {"keep", "remove"}
  BY TaskParts
<1>2. CASE task[th].stop.kind = "process"
  BY <1>1, <1>2, ReleaseRemoteType DEF AfterStop
<1>3. CASE task[th].stop.kind # "process"
  <2>1. AfterStop(task[th]) \in {Idle, [op |-> "remove", agent |-> task[th].agent]}
    BY <1>3 DEF AfterStop
  <2>2. [op |-> "remove", agent |-> task[th].agent] \in Task /\ Idle \in Task
    BY <1>1 DEF Task
  <2>3. AfterStop(task[th]).op \in {"idle", "remove"}
    BY <2>1 DEF Idle
  <2>4. QED BY <2>1, <2>2, <2>3
<1>4. QED BY <1>2, <1>3

LEMMA GotoType ==
  ASSUME TypeOK, NEW th \in Actor, NEW next \in Task, Goto(th, next)
  PROVE  task' \in [Actor -> Task] /\ task'[th] = next
         /\ \A o \in Actor : o # th => task'[o] = task[o]
BY DEF TypeOK, Goto

LEMMA IdleTask == Idle \in Task
BY DEF Task

LEMMA Reconciler == "reconciler" \in Actor /\ "main" \in Actor
BY DEF Actor

LEMMA TypeInit == Init => TypeOK
<1>1. SUFFICES ASSUME Init
               PROVE  TypeOK
  OBVIOUS
<1>2. tracked \in [Kind -> [Agent -> Target \cup {None}]]
  BY <1>1 DEF Init, NothingTracked
<1>3. task \in [Actor -> Task]
  BY <1>1, IdleTask DEF Init
<1>4. rows \in [Agent -> Stop \cup {NoRow}] /\ spent \in [Event -> Nat]
  BY <1>1 DEF Init
<1>5. QED BY <1>1, <1>2, <1>3, <1>4 DEF Init, TypeOK

LEMMA SpendType ==
  ASSUME TypeOK, NEW event \in Event, Spend(event)
  PROVE  spent' \in [Event -> Nat]
BY DEF TypeOK, Spend

LEMMA JournaledType ==
  ASSUME TypeOK, NEW a \in Agent
  PROVE  Journaled(a) \subseteq Target
BY StopParts DEF TypeOK, Journaled

LEMMA WindowType ==
  ASSUME TypeOK
  PROVE  Window \subseteq Target
<1>1. R.op \in {"note", "mirror", "row"} => R.stop.target \in Target
  BY TaskParts, Reconciler, StopParts DEF R, Stopping
<1>2. QED BY <1>1 DEF Window, R

(* What remembering a stop does to the tasks.                              *)
LEMMA RememberTasks ==
  ASSUME TypeOK, R.op \in {"freeze", "note"}, Remember
  PROVE  /\ R' = [R EXCEPT !.op = "mirror"]
         /\ task' \in [Actor -> Task]
         /\ \A th \in Actor \ {"reconciler"} :
              task'[th] = IF task[th].op \in Releasing /\ task[th].agent = R.agent
                          THEN [task[th] EXCEPT !.view = "overtaken"] ELSE task[th]
<1>1. R' = [R EXCEPT !.op = "mirror"]
  BY Reconciler DEF Remember, R
<1>2. \A th \in Actor \ {"reconciler"} :
        task'[th] = IF task[th].op \in Releasing /\ task[th].agent = R.agent
                    THEN [task[th] EXCEPT !.view = "overtaken"] ELSE task[th]
  BY DEF Remember, R
<1>3. R' \in Task
  <2>1. R \in [op : Stopping, agent : Agent, stop : Stop]
    BY TaskParts, Reconciler DEF R, Stopping
  <2>2. R' \in [op : Stopping, agent : Agent, stop : Stop]
    BY <1>1, <2>1 DEF Stopping
  <2>3. QED BY <2>2 DEF Task
<1>4. \A th \in Actor \ {"reconciler"} : task'[th] \in Task
  <2>1. TAKE th \in Actor \ {"reconciler"}
  <2>2. CASE task[th].op \in Releasing /\ task[th].agent = R.agent
    <3>1. task[th] \in [op : Releasing, agent : Agent, stop : Stop,
                        then : {"keep", "remove"}, view : {"current", "overtaken"}]
      BY <2>2, TaskParts
    <3>2. task'[th] \in [op : Releasing, agent : Agent, stop : Stop,
                         then : {"keep", "remove"}, view : {"current", "overtaken"}]
      BY <1>2, <2>2, <3>1
    <3>3. QED BY <3>2 DEF Task
  <2>3. CASE ~(task[th].op \in Releasing /\ task[th].agent = R.agent)
    BY <1>2, <2>3 DEF TypeOK
  <2>4. QED BY <2>2, <2>3
<1>5. task' \in [Actor -> Task]
  <2>1. \A th \in Actor : task'[th] \in Task
    BY <1>3, <1>4 DEF R
  <2>2. task' = [th \in Actor |-> task'[th]]
    BY DEF Remember
  <2>3. QED BY <2>1, <2>2
<1>6. QED BY <1>1, <1>2, <1>5

LEMMA RememberType ==
  ASSUME TypeOK, R.op \in {"freeze", "note"}, Remember
  PROVE  tracked' \in [Kind -> [Agent -> Target \cup {None}]] /\ lost' \subseteq Target
<1>1. R.agent \in Agent /\ R.stop \in Stop
  BY TaskParts, Reconciler DEF R, Stopping
<1>2. R.stop.kind \in Kind /\ R.stop.target \in Target
  BY <1>1, StopParts
<1>3. QED BY <1>1, <1>2 DEF Remember, R, TypeOK

(* A step of a stop or of a release keeps the parts of the task.           *)
LEMMA NextOpType ==
  ASSUME TypeOK, NEW th \in Actor
  PROVE  /\ \A op \in Stopping : task[th].op \in Stopping => [task[th] EXCEPT !.op = op] \in Task
         /\ \A op \in Releasing : task[th].op \in Releasing => [task[th] EXCEPT !.op = op] \in Task
<1>1. ASSUME NEW op \in Stopping, task[th].op \in Stopping
      PROVE  [task[th] EXCEPT !.op = op] \in [op : Stopping, agent : Agent, stop : Stop]
  BY <1>1, TaskParts
<1>2. ASSUME NEW op \in Releasing, task[th].op \in Releasing
      PROVE  [task[th] EXCEPT !.op = op] \in
               [op : Releasing, agent : Agent, stop : Stop,
                then : {"keep", "remove"}, view : {"current", "overtaken"}]
  BY <1>2, TaskParts
<1>3. QED BY <1>1, <1>2 DEF Task

LEMMA TypeStep ==
  ASSUME TypeOK, [Next]_vars
  PROVE  TypeOK'
<1>1. ASSUME NEW a \in Agent, Register(a)
      PROVE  TypeOK'
  <2>1. "register" \in Event
    BY DEF Event
  <2>2. spent' \in [Event -> Nat]
    BY <1>1, <2>1, SpendType DEF Register
  <2>3. QED BY <1>1, <2>2 DEF Register, TypeOK, books, history
<1>2. ASSUME NEW a \in Agent, ScanFolds(a)
      PROVE  TypeOK'
  BY <1>2 DEF ScanFolds, TypeOK, books, history
<1>3. ASSUME NEW a \in Agent, Meter(a)
      PROVE  TypeOK'
  <2>1. "meter" \in Event
    BY DEF Event
  <2>2. spent' \in [Event -> Nat]
    BY <1>3, <2>1, SpendType DEF Meter
  <2>3. QED BY <1>3, <2>2 DEF Meter, TypeOK, books, history
<1>4. ASSUME NEW a \in Agent, ReleaseClosing(a)
      PROVE  TypeOK'
  <2>1. Release(a, "keep") \in Task
    BY ReleaseType
  <2>2. task' \in [Actor -> Task]
    BY <1>4, <2>1, Reconciler, GotoType DEF ReleaseClosing
  <2>3. QED BY <1>4, <2>2 DEF ReleaseClosing, TypeOK, books, history
<1>5. ASSUME NEW th \in Thread, NEW a \in Agent, Deregister(th, a)
      PROVE  TypeOK'
  <2>1. Release(a, "remove") \in Task /\ th \in Actor /\ "remove" \in Event
    BY ReleaseType DEF Actor, Event
  <2>2. task' \in [Actor -> Task]
    BY <1>5, <2>1, GotoType DEF Deregister
  <2>3. spent' \in [Event -> Nat]
    BY <1>5, <2>1, SpendType DEF Deregister
  <2>4. QED BY <1>5, <2>2, <2>3 DEF Deregister, TypeOK, books, history
<1>6. ASSUME NEW a \in Agent, StopDecide(a)
      PROVE  TypeOK'
  <2>1. ASSUME NEW op \in {"freeze", "suspend"}, NEW k \in Kind, NEW t \in Target,
               Goto("reconciler", [op |-> op, agent |-> a, stop |-> [kind |-> k, target |-> t]])
        PROVE  task' \in [Actor -> Task]
    <3>1. [op |-> op, agent |-> a, stop |-> [kind |-> k, target |-> t]] \in Task
      BY DEF Task, Stopping, Stop
    <3>2. QED BY <2>1, <3>1, Reconciler, GotoType
  <2>2. /\ registry[a].process # None => registry[a].process \in Target
        /\ registry[a].endpoint # None => registry[a].endpoint \in Target
    BY <1>6, EntryParts DEF StopDecide, Target
  <2>3. "process" \in Kind /\ "remote" \in Kind
    BY DEF Kind
  <2>4. task' \in [Actor -> Task]
    BY <1>6, <2>1, <2>2, <2>3 DEF StopDecide
  <2>5. QED BY <1>6, <2>4 DEF StopDecide, TypeOK, environment, books, history
<1>7. ASSUME NEW a \in Agent, ReleaseRecovered(a)
      PROVE  TypeOK'
  <2>1. Release(a, "keep") \in Task
    BY ReleaseType
  <2>2. task' \in [Actor -> Task]
    BY <1>7, <2>1, Reconciler, GotoType DEF ReleaseRecovered
  <2>3. QED BY <1>7, <2>2 DEF ReleaseRecovered, TypeOK, environment, books, history
<1>8. CASE Freeze
  <2>1. R.stop.target \in Target
    BY <1>8, TaskParts, StopParts, Reconciler DEF Freeze, R, Stopping
  <2>2. CASE Remember
    <3>1. stopped' \subseteq Target
      BY <1>8, <2>1 DEF Freeze, R, TypeOK
    <3>2. QED BY <1>8, <2>2, <3>1, RememberTasks, RememberType
             DEF Freeze, R, TypeOK, environment
  <2>3. CASE Done("reconciler") /\ UNCHANGED <<stopped, tracked, lost>>
    <3>1. task' \in [Actor -> Task]
      BY <2>3, IdleTask, Reconciler, GotoType DEF Done
    <3>2. QED BY <1>8, <2>3, <3>1 DEF Freeze, TypeOK, environment
  <2>4. QED BY <1>8, <2>2, <2>3 DEF Freeze
<1>9. CASE Suspend
  <2>1. R.stop.target \in Target
    BY <1>9, TaskParts, StopParts, Reconciler DEF Suspend, R, Stopping
  <2>2. stopped' \subseteq Target /\ lost' \subseteq Target
    BY <1>9, <2>1 DEF Suspend, R, TypeOK
  <2>3. task' \in [Actor -> Task]
    <3>1. [R EXCEPT !.op = "note"] \in Task
      BY <1>9, NextOpType, Reconciler DEF Suspend, R, Stopping
    <3>2. Goto("reconciler", [R EXCEPT !.op = "note"]) \/ Goto("reconciler", Idle)
      BY <1>9 DEF Suspend, R, Done
    <3>3. QED BY <3>1, <3>2, IdleTask, Reconciler, GotoType
  <2>4. QED BY <1>9, <2>2, <2>3 DEF Suspend, TypeOK, environment, books
<1>10. CASE Note
  BY <1>10, RememberTasks, RememberType DEF Note, R, TypeOK, environment
<1>11. CASE JournalMirror
  <2>1. R.agent \in Agent /\ [R EXCEPT !.op = "row"] \in Task
    BY <1>11, TaskParts, NextOpType, Reconciler DEF JournalMirror, R, Stopping
  <2>2. task' \in [Actor -> Task]
    BY <1>11, <2>1, Reconciler, GotoType DEF JournalMirror, R
  <2>3. QED BY <1>11, <2>1, <2>2 DEF JournalMirror, R, TypeOK, environment, history
<1>12. CASE JournalRow
  <2>1. R.agent \in Agent /\ R.stop \in Stop
    BY <1>12, TaskParts, Reconciler DEF JournalRow, R, Stopping
  <2>2. task' \in [Actor -> Task]
    BY <1>12, IdleTask, Reconciler, GotoType DEF JournalRow, Done
  <2>3. rows' \in [Agent -> Stop \cup {NoRow}]
    BY <1>12, <2>1 DEF JournalRow, R, TypeOK
  <2>4. unrecorded' \subseteq Target
    <3>1. Journaled(R.agent) \subseteq Target /\ R.stop.target \in Target
      BY <2>1, StopParts, JournaledType
    <3>2. unrecorded' \in {(unrecorded \cup Journaled(R.agent)) \ {R.stop.target},
                           unrecorded \cup {R.stop.target}}
      BY <1>12 DEF JournalRow, R
    <3>3. QED BY <3>1, <3>2 DEF TypeOK
  <2>5. QED BY <1>12, <2>2, <2>3, <2>4 DEF JournalRow, TypeOK, environment
<1>13. ASSUME NEW th \in Actor, Continue(th)
       PROVE  TypeOK'
  <2>1. task[th].stop.target \in Target /\ [task[th] EXCEPT !.op = "forget"] \in Task
    BY <1>13, TaskParts, StopParts, NextOpType DEF Continue, Releasing
  <2>2. task' \in [Actor -> Task]
    BY <1>13, <2>1, GotoType DEF Continue
  <2>3. stopped' \subseteq Target /\ lost' \subseteq Target /\ unrecorded' \subseteq Target
    BY <1>13, <2>1 DEF Continue, TypeOK
  <2>4. QED BY <1>13, <2>2, <2>3 DEF Continue, TypeOK, environment, books
<1>14. ASSUME NEW th \in Actor, Forget(th)
       PROVE  TypeOK'
  <2>1. /\ task[th].agent \in Agent /\ task[th].stop.kind \in Kind
        /\ [task[th] EXCEPT !.op = "unmirror"] \in Task
    BY <1>14, TaskParts, StopParts, NextOpType DEF Forget, Releasing
  <2>2. task' \in [Actor -> Task]
    BY <1>14, <2>1, GotoType DEF Forget
  <2>3. tracked' \in [Kind -> [Agent -> Target \cup {None}]]
    BY <1>14, <2>1 DEF Forget, TypeOK
  <2>4. lost' \subseteq Target
    BY <1>14, <2>1 DEF Forget, TypeOK
  <2>5. QED BY <1>14, <2>2, <2>3, <2>4 DEF Forget, TypeOK, environment
<1>15. ASSUME NEW th \in Actor, JournalUnmirror(th)
       PROVE  TypeOK'
  <2>1. [task[th] EXCEPT !.op = "unrow"] \in Task /\ AfterStop(task[th]) \in Task
    BY <1>15, NextOpType, AfterStopType DEF JournalUnmirror, Releasing
  <2>2. task' \in [Actor -> Task]
    BY <1>15, <2>1, GotoType DEF JournalUnmirror
  <2>3. QED BY <1>15, <2>2 DEF JournalUnmirror, TypeOK, environment, history
<1>16. ASSUME NEW th \in Actor, JournalUnrow(th)
       PROVE  TypeOK'
  <2>1. task[th].agent \in Agent /\ AfterStop(task[th]) \in Task
    BY <1>16, TaskParts, AfterStopType DEF JournalUnrow, Releasing
  <2>2. task' \in [Actor -> Task]
    BY <1>16, <2>1, GotoType DEF JournalUnrow
  <2>3. rows' \in [Agent -> Stop \cup {NoRow}]
    BY <1>16, <2>1 DEF JournalUnrow, TypeOK
  <2>4. unrecorded' \subseteq Target
    BY <1>16, <2>1, JournaledType DEF JournalUnrow, TypeOK
  <2>5. QED BY <1>16, <2>2, <2>3, <2>4 DEF JournalUnrow, TypeOK, environment
<1>17. ASSUME NEW th \in Actor, Remove(th)
       PROVE  TypeOK'
  <2>1. task' \in [Actor -> Task]
    BY <1>17, IdleTask, GotoType DEF Remove, Done
  <2>2. QED BY <1>17, <2>1 DEF Remove, TypeOK, books, history
<1>18. CASE Shutdown
  BY <1>18 DEF Shutdown, TypeOK, books, history
<1>19. ASSUME Die, lost' \subseteq Target, unrecorded' \subseteq Target
       PROVE  TypeOK'
  <2>1. tracked' \in [Kind -> [Agent -> Target \cup {None}]]
    BY <1>19 DEF Die, NothingTracked
  <2>2. task' \in [Actor -> Task]
    BY <1>19, IdleTask DEF Die
  <2>3. QED BY <1>19, <2>1, <2>2 DEF Die, TypeOK
<1>20. CASE Exit
  BY <1>19, <1>20 DEF Exit, history, TypeOK
<1>21. CASE Crash
  BY <1>19, <1>21, WindowType DEF Crash, TypeOK
<1>22. CASE Start
  <2>1. "start" \in Event
    BY DEF Event
  <2>2. spent' \in [Event -> Nat]
    BY <1>22, <2>1, SpendType DEF Start
  <2>3. InJournal \subseteq Target
    BY JournaledType DEF InJournal
  <2>4. stopped' \subseteq Target /\ lost' \subseteq Target /\ unrecorded' \subseteq Target
    BY <1>22, <2>3 DEF Start, TypeOK
  <2>5. rows' \in [Agent -> Stop \cup {NoRow}]
    BY <1>22 DEF Start, TypeOK
  <2>6. QED BY <1>22, <2>2, <2>4, <2>5 DEF Start, TypeOK
<1>23. CASE UNCHANGED vars
  BY <1>23 DEF vars, books, history, TypeOK
<1>24. QED BY <1>1, <1>2, <1>3, <1>4, <1>5, <1>6, <1>7, <1>8, <1>9, <1>10, <1>11, <1>12,
              <1>13, <1>14, <1>15, <1>16, <1>17, <1>18, <1>20, <1>21, <1>22, <1>23
           DEF Next, Reconcile, ReleaseStep

-----------------------------------------------------------------------------
(* What the radar knows, and what the journal holds                        *)

LEMMA StopInit == Init => StopInv
<1>1. SUFFICES ASSUME Init
               PROVE  StopInv
  OBVIOUS
<1>2. TypeOK
  BY <1>1, TypeInit
<1>3. \A th \in Actor : task[th].op = "idle"
  BY <1>1 DEF Init, Idle
<1>4. R.op = "idle"
  BY <1>3, Reconciler DEF R
<1>5. ReleasesOwn /\ NoteUntracked /\ ResumedStays
  BY <1>3, <1>4 DEF ReleasesOwn, NoteUntracked, ResumedStays
<1>6. DownIdle /\ TrackedInv /\ JournaledInv
  BY <1>1 DEF Init, DownIdle, TrackedInv, JournaledInv
<1>7. QED BY <1>2, <1>5, <1>6 DEF StopInv

Working == {"note", "mirror", "row"}

(* A thread that is not in the middle of a stop, and does not begin one,   *)
(* leaves what the reconciler has yet to note or to journal alone.         *)
LEMMA Elsewhere ==
  ASSUME NEW th \in Actor,
         \A o \in Actor : o # th => task'[o] = task[o],
         task[th].op \notin Working, task'[th].op \notin Working
  PROVE  /\ Window' = Window
         /\ R.op \in Working \/ R'.op \in Working => R' = R
<1>1. CASE th = "reconciler"
  BY <1>1 DEF Window, R, Working
<1>2. CASE th # "reconciler"
  BY <1>2, Reconciler DEF Window, R, Working
<1>3. QED BY <1>1, <1>2

(* Only a thread that moves on to forget has newly resumed a target.       *)
LEMMA ResumedBefore ==
  ASSUME NEW th \in Actor,
         \A o \in Actor : o # th => task'[o] = task[o],
         task'[th].op \notin Past,
         NEW a, NEW t, Resumed(a, t)'
  PROVE  Resumed(a, t)
<1>1. PICK o \in Actor : /\ task'[o].op \in Past
                         /\ task'[o].view = "current"
                         /\ task'[o].agent = a
                         /\ task'[o].stop.target = t
  BY DEF Resumed
<1>2. task'[o] = task[o]
  BY <1>1
<1>3. QED BY <1>1, <1>2 DEF Resumed

(* A step by which no target is stopped, noted, forgotten or resumed.      *)
LEMMA BooksKept ==
  ASSUME StopInv,
         UNCHANGED <<stopped, tracked, rows, lost, unrecorded>>,
         radar' = "down" <=> radar = "down",
         \A a, t : Resumed(a, t)' => Resumed(a, t),
         Window' = Window,
         R.op \in Working \/ R'.op \in Working =>
           R.op \in Working /\ R'.op \in Working /\ R'.agent = R.agent /\ R'.stop = R.stop,
         R.op = "note" => R'.op = "note",
         R'.op = "note" => R.op = "note"
  PROVE  NoteUntracked' /\ ResumedStays' /\ TrackedInv' /\ JournaledInv'
<1>1. NoteUntracked'
  BY DEF StopInv, NoteUntracked, Working
<1>2. ResumedStays'
  <2>1. SUFFICES ASSUME R'.op \in {"mirror", "row"},
                        NEW a, NEW t, a = R'.agent, t = R'.stop.target, Resumed(a, t)'
                 PROVE  t \notin stopped' \/ t \in lost'
    BY DEF ResumedStays, Resumed
  <2>2. R.op \in {"mirror", "row"} /\ R'.agent = R.agent /\ R'.stop = R.stop
    BY <2>1 DEF Working
  <2>3. Resumed(a, t) /\ a = R.agent /\ t = R.stop.target
    BY <2>1, <2>2
  <2>4. t \notin stopped \/ t \in lost
    BY <2>2, <2>3 DEF StopInv, ResumedStays
  <2>5. QED BY <2>4
<1>3. TrackedInv'
  <2>1. SUFFICES ASSUME radar # "down", NEW t \in stopped
                 PROVE  \/ t \in lost
                        \/ R'.op = "note" /\ R'.stop.target = t
                        \/ \E k \in Kind, a \in Agent : tracked[k][a] = t /\ ~Resumed(a, t)'
    BY DEF TrackedInv
  <2>2. CASE R.op = "note" /\ R.stop.target = t
    BY <2>2 DEF Working
  <2>3. CASE ~(R.op = "note" /\ R.stop.target = t)
    BY <2>1, <2>3 DEF StopInv, TrackedInv
  <2>4. QED BY <2>2, <2>3
<1>4. JournaledInv'
  <2>1. SUFFICES ASSUME NEW t \in stopped
                 PROVE  \/ t \in lost \cup unrecorded \cup Window
                        \/ \E a \in Agent : rows[a] # NoRow /\ rows[a].target = t /\ ~Resumed(a, t)'
    BY DEF JournaledInv
  <2>2. QED BY <2>1 DEF StopInv, JournaledInv
<1>5. QED BY <1>1, <1>2, <1>3, <1>4

(* A stop is remembered: nobody has resumed its target for the agent since,*)
(* and what was known of the other targets stays known.                    *)
LEMMA RememberStep ==
  ASSUME StopInv, Remember, R.op \in {"freeze", "note"},
         tracked[R.stop.kind][R.agent] = None,
         stopped' \subseteq stopped \cup {R.stop.target},
         UNCHANGED <<radar, rows, unrecorded>>
  PROVE  /\ ReleasesOwn' /\ NoteUntracked' /\ ResumedStays'
         /\ DownIdle' /\ TrackedInv' /\ JournaledInv'
<1>1. TypeOK /\ R.agent \in Agent /\ R.stop.kind \in Kind
      /\ R.stop.target \in Target /\ R.stop.target # None
  BY TaskParts, StopParts, Reconciler DEF StopInv, R, Stopping
<1>2. /\ R'.op = "mirror" /\ R'.agent = R.agent /\ R'.stop = R.stop
      /\ \A th \in Actor \ {"reconciler"} :
           task'[th] = IF task[th].op \in Releasing /\ task[th].agent = R.agent
                       THEN [task[th] EXCEPT !.view = "overtaken"] ELSE task[th]
  <2>1. R \in [op : Stopping, agent : Agent, stop : Stop]
    BY <1>1, TaskParts, Reconciler DEF R, Stopping
  <2>2. QED BY <1>1, <2>1, RememberTasks
<1>3. /\ tracked' = [tracked EXCEPT ![R.stop.kind][R.agent] = R.stop.target]
      /\ lost' = lost \ {R.stop.target}
  BY DEF Remember, R
<1>4. tracked'[R.stop.kind][R.agent] = R.stop.target
  BY <1>1, <1>3 DEF TypeOK
<1>5. \A k \in Kind, a \in Agent : k # R.stop.kind \/ a # R.agent => tracked'[k][a] = tracked[k][a]
  BY <1>1, <1>3 DEF TypeOK
<1>6. ASSUME NEW th \in Actor, task'[th].op \in Releasing, task'[th].view = "current"
      PROVE  th # "reconciler" /\ task'[th] = task[th] /\ task[th].agent # R.agent
  <2>1. th # "reconciler"
    BY <1>2, <1>6 DEF R, Releasing
  <2>2. CASE task[th].op \in Releasing /\ task[th].agent = R.agent
    <3>1. task[th] \in [op : Releasing, agent : Agent, stop : Stop,
                        then : {"keep", "remove"}, view : {"current", "overtaken"}]
      BY <1>1, <2>2, TaskParts
    <3>2. task'[th].view = "overtaken"
      BY <1>2, <2>1, <2>2, <3>1
    <3>3. QED BY <1>6, <3>2
  <2>3. CASE ~(task[th].op \in Releasing /\ task[th].agent = R.agent)
    BY <1>2, <1>6, <2>1, <2>3
  <2>4. QED BY <2>2, <2>3
<1>7. ASSUME NEW a, NEW t, Resumed(a, t)'
      PROVE  Resumed(a, t) /\ a # R.agent
  <2>1. PICK th \in Actor : /\ task'[th].op \in Past
                            /\ task'[th].view = "current"
                            /\ task'[th].agent = a
                            /\ task'[th].stop.target = t
    BY <1>7 DEF Resumed
  <2>2. task'[th] = task[th] /\ task[th].agent # R.agent
    BY <1>6, <2>1 DEF Past, Releasing
  <2>3. QED BY <2>1, <2>2 DEF Resumed
<1>8. radar # "down"
  BY Reconciler DEF StopInv, DownIdle, R, Idle
<1>9. ReleasesOwn'
  <2>1. SUFFICES ASSUME NEW th \in Actor,
                        task'[th].op \in {"continue", "forget"}, task'[th].view = "current"
                 PROVE  tracked'[task'[th].stop.kind][task'[th].agent] \in {None, task'[th].stop.target}
    BY DEF ReleasesOwn
  <2>2. task'[th] = task[th] /\ task[th].agent # R.agent
    BY <1>6, <2>1 DEF Releasing
  <2>3. task[th].agent \in Agent /\ task[th].stop.kind \in Kind
    BY <1>1, <2>1, <2>2, TaskParts, StopParts DEF Releasing
  <2>4. tracked[task[th].stop.kind][task[th].agent] \in {None, task[th].stop.target}
    BY <2>1, <2>2 DEF StopInv, ReleasesOwn
  <2>5. QED BY <1>5, <2>2, <2>3, <2>4
<1>10. NoteUntracked'
  BY <1>2 DEF NoteUntracked
<1>11. ResumedStays'
  <2>1. SUFFICES ASSUME NEW a, NEW t, a = R'.agent, Resumed(a, t)'
                 PROVE  FALSE
    BY DEF ResumedStays, Resumed
  <2>2. QED BY <1>2, <1>7, <2>1
<1>12. DownIdle'
  BY <1>8 DEF DownIdle
<1>13. TrackedInv'
  <2>1. SUFFICES ASSUME NEW t \in stopped'
                 PROVE  \/ t \in lost'
                        \/ R'.op = "note" /\ R'.stop.target = t
                        \/ \E k \in Kind, a \in Agent : tracked'[k][a] = t /\ ~Resumed(a, t)'
    BY DEF TrackedInv
  <2>2. CASE t = R.stop.target
    BY <1>1, <1>4, <1>7, <2>2
  <2>3. CASE t # R.stop.target
    <3>1. t \in stopped /\ t # None
      BY <1>1, <2>1, <2>3, TargetAssumption DEF TypeOK
    <3>2. CASE t \in lost
      BY <1>3, <2>3, <3>2
    <3>3. CASE t \notin lost
      <4>1. PICK k \in Kind, a \in Agent : tracked[k][a] = t /\ ~Resumed(a, t)
        BY <1>8, <2>3, <3>1, <3>3 DEF StopInv, TrackedInv
      <4>2. k # R.stop.kind \/ a # R.agent
        BY <3>1, <4>1
      <4>3. tracked'[k][a] = t
        BY <1>5, <4>1, <4>2
      <4>4. QED BY <1>7, <4>1, <4>3
    <3>4. QED BY <3>2, <3>3
  <2>4. QED BY <2>2, <2>3
<1>14. JournaledInv'
  <2>1. Window' = {R.stop.target}
    BY <1>2 DEF Window, R
  <2>2. SUFFICES ASSUME NEW t \in stopped'
                 PROVE  \/ t \in lost' \cup unrecorded \cup Window'
                        \/ \E a \in Agent : rows[a] # NoRow /\ rows[a].target = t /\ ~Resumed(a, t)'
    BY DEF JournaledInv
  <2>3. CASE t = R.stop.target
    BY <2>1, <2>3
  <2>4. CASE t # R.stop.target
    <3>1. t \in stopped
      BY <2>2, <2>4
    <3>2. Window \subseteq {R.stop.target}
      BY DEF Window, R
    <3>3. CASE t \in lost \cup unrecorded
      BY <1>3, <2>4, <3>3
    <3>4. CASE t \notin lost \cup unrecorded
      <4>1. PICK a \in Agent : rows[a] # NoRow /\ rows[a].target = t /\ ~Resumed(a, t)
        BY <2>4, <3>1, <3>2, <3>4 DEF StopInv, JournaledInv
      <4>2. QED BY <1>7, <4>1
    <3>5. QED BY <3>3, <3>4
  <2>5. QED BY <2>3, <2>4
<1>15. QED BY <1>9, <1>10, <1>11, <1>12, <1>13, <1>14

(* A step of one thread, not in the middle of a stop before or after it,   *)
(* that newly resumes nothing and changes neither stops nor books.         *)
LEMMA MoveStep ==
  ASSUME StopInv, NEW th \in Actor,
         \A o \in Actor : o # th => task'[o] = task[o],
         task[th].op \notin Working, task'[th].op \notin Working \cup Past,
         \/ task'[th].op # "continue"
         \/ task'[th].stop.target = tracked[task'[th].stop.kind][task'[th].agent],
         UNCHANGED <<stopped, tracked, rows, lost, unrecorded, radar>>
  PROVE  /\ ReleasesOwn' /\ NoteUntracked' /\ ResumedStays'
         /\ TrackedInv' /\ JournaledInv'
<1>1. \A a, t : Resumed(a, t)' => Resumed(a, t)
  BY ResumedBefore
<1>2. /\ Window' = Window
      /\ R.op \in Working \/ R'.op \in Working => R' = R
  BY Elsewhere
<1>3. NoteUntracked' /\ ResumedStays' /\ TrackedInv' /\ JournaledInv'
  BY <1>1, <1>2, BooksKept DEF Working
<1>4. ReleasesOwn'
  BY DEF StopInv, ReleasesOwn, Past
<1>5. QED BY <1>3, <1>4

LEMMA StopStep ==
  ASSUME StopInv, [Next]_vars
  PROVE  StopInv'
<1>1. TypeOK /\ TypeOK'
  BY TypeStep DEF StopInv
<1>2. ASSUME UNCHANGED <<stopped, tracked, rows, task, lost, unrecorded>>,
             radar' = "down" <=> radar = "down"
      PROVE  StopInv'
  <2>1. R' = R /\ Window' = Window /\ \A a, t : Resumed(a, t)' => Resumed(a, t)
    BY <1>2 DEF R, Window, Resumed
  <2>2. NoteUntracked' /\ ResumedStays' /\ TrackedInv' /\ JournaledInv'
    BY <1>2, <2>1, BooksKept
  <2>3. ReleasesOwn' /\ DownIdle'
    BY <1>2 DEF StopInv, ReleasesOwn, DownIdle
  <2>4. QED BY <1>1, <2>2, <2>3 DEF StopInv
<1>3. ASSUME NEW th \in Actor, NEW next \in Task, Goto(th, next),
             task[th].op \notin Working, next.op \notin Working \cup Past,
             \/ next.op # "continue"
             \/ next.stop.target = tracked[next.stop.kind][next.agent],
             radar # "down",
             UNCHANGED <<stopped, tracked, rows, lost, unrecorded, radar>>
      PROVE  StopInv'
  <2>1. task'[th] = next /\ \A o \in Actor : o # th => task'[o] = task[o]
    BY <1>1, <1>3, GotoType
  <2>2. ReleasesOwn' /\ NoteUntracked' /\ ResumedStays' /\ TrackedInv' /\ JournaledInv'
    BY <1>3, <2>1, MoveStep
  <2>3. DownIdle'
    BY <1>3 DEF DownIdle
  <2>4. QED BY <1>1, <2>2, <2>3 DEF StopInv
<1>4. ASSUME NEW th \in Actor, NEW a \in Agent, NEW then \in {"keep", "remove"},
             task[th] = Idle, Goto(th, Release(a, then)), radar # "down",
             UNCHANGED <<stopped, tracked, rows, lost, unrecorded, radar>>
      PROVE  StopInv'
  <2>1. Release(a, then) \in Task
    BY <1>1, ReleaseType
  <2>2. /\ Release(a, then).op \notin Working \cup Past
        /\ \/ Release(a, then).op # "continue"
           \/ Release(a, then).stop.target
                = tracked[Release(a, then).stop.kind][Release(a, then).agent]
    BY <1>1, ReleaseType DEF Releases, Working, Past
  <2>3. task[th].op \notin Working
    BY <1>4 DEF Idle, Working
  <2>4. QED BY <1>3, <1>4, <2>1, <2>2, <2>3
<1>5. ASSUME NEW a \in Agent, Register(a) \/ ScanFolds(a) \/ Meter(a)
      PROVE  StopInv'
  BY <1>2, <1>5 DEF Register, ScanFolds, Meter, books, history
<1>6. ASSUME NEW a \in Agent, ReleaseClosing(a)
      PROVE  StopInv'
  <2>1. task["main"] = Idle /\ Goto("main", Release(a, "keep")) /\ radar # "down"
    BY <1>6 DEF ReleaseClosing
  <2>2. QED BY <1>4, <1>6, <2>1, Reconciler DEF ReleaseClosing, books, history
<1>7. ASSUME NEW th \in Thread, NEW a \in Agent, Deregister(th, a)
      PROVE  StopInv'
  <2>1. th \in Actor /\ radar # "down"
    BY <1>7 DEF Actor, Deregister
  <2>2. QED BY <1>4, <1>7, <2>1 DEF Deregister, books, history
<1>8. ASSUME NEW a \in Agent, StopDecide(a)
      PROVE  StopInv'
  <2>1. PICK next : Goto("reconciler", next) /\ next.op \in {"freeze", "suspend"}
    BY <1>8 DEF StopDecide
  <2>2. task["reconciler"].op \notin Working /\ radar # "down"
    BY <1>8 DEF StopDecide, Idle, Working
  <2>3. task'["reconciler"] = next /\ \A o \in Actor : o # "reconciler" => task'[o] = task[o]
    BY <1>1, <2>1, Reconciler DEF Goto, TypeOK
  <2>4. UNCHANGED <<stopped, tracked, rows, lost, unrecorded, radar>>
    BY <1>8 DEF StopDecide, environment, books, history
  <2>5. next.op \notin Working \cup Past /\ next.op # "continue"
    BY <2>1 DEF Working, Past
  <2>6. ReleasesOwn' /\ NoteUntracked' /\ ResumedStays' /\ TrackedInv' /\ JournaledInv'
    BY <2>2, <2>3, <2>4, <2>5, Reconciler, MoveStep
  <2>7. DownIdle'
    BY <2>2, <2>4 DEF DownIdle
  <2>8. QED BY <1>1, <2>6, <2>7 DEF StopInv
<1>9. ASSUME NEW a \in Agent, ReleaseRecovered(a)
      PROVE  StopInv'
  BY <1>4, <1>9, Reconciler DEF ReleaseRecovered, environment, books, history
<1>10. ASSUME R.op \in {"freeze", "suspend"}, Done("reconciler"),
              UNCHANGED <<stopped, tracked, rows, lost, unrecorded, radar>>
       PROVE  StopInv'
  <2>1. radar # "down"
    BY <1>10, Reconciler DEF StopInv, DownIdle, R, Idle
  <2>2. task["reconciler"].op \notin Working /\ Idle.op \notin Working \cup Past \cup {"continue"}
    BY <1>10 DEF R, Idle, Working, Past
  <2>3. QED BY <1>3, <1>10, <2>1, <2>2, Reconciler, IdleTask DEF Done
<1>11. CASE Freeze
  <2>1. CASE ~Known /\ stopped' = stopped \cup {R.stop.target} /\ Remember
    <3>1. tracked[R.stop.kind][R.agent] = None
      BY <2>1 DEF Known, R
    <3>2. R.op \in {"freeze", "note"} /\ UNCHANGED <<radar, rows, unrecorded>>
      BY <1>11 DEF Freeze, R, environment
    <3>3. QED BY <1>1, <2>1, <3>1, <3>2, RememberStep DEF StopInv
  <2>2. CASE Done("reconciler") /\ UNCHANGED <<stopped, tracked, lost>>
    BY <1>10, <1>11, <2>2 DEF Freeze, R, environment
  <2>3. QED BY <1>11, <2>1, <2>2 DEF Freeze, R
<1>12. CASE Suspend
  <2>1. R \in [op : Stopping, agent : Agent, stop : Stop] /\ radar # "down"
    BY <1>1, <1>12, TaskParts, Reconciler DEF Suspend, R, Stopping, StopInv, DownIdle, Idle
  <2>2. /\ UNCHANGED <<radar, tracked, rows, unrecorded>>
        /\ R.op \notin Working /\ R.op \notin Past /\ Window = {}
    BY <1>12 DEF Suspend, R, Window, Working, Past, environment, books
  <2>3. CASE ~Known /\ stopped' = stopped \cup {R.stop.target} /\ UNCHANGED lost
             /\ Goto("reconciler", [R EXCEPT !.op = "note"])
    <3>1. /\ R' = [R EXCEPT !.op = "note"]
          /\ \A o \in Actor : o # "reconciler" => task'[o] = task[o]
      BY <1>1, <2>3, Reconciler DEF Goto, R, TypeOK
    <3>2. R'.op = "note" /\ R'.agent = R.agent /\ R'.stop = R.stop
      BY <2>1, <3>1
    <3>3. \A a, t : Resumed(a, t)' => Resumed(a, t)
      BY <3>1, <3>2, Reconciler, ResumedBefore DEF R, Past
    <3>4. ReleasesOwn'
      BY <2>2, <3>1, <3>2 DEF StopInv, ReleasesOwn, R
    <3>5. NoteUntracked'
      BY <2>2, <2>3, <3>2 DEF NoteUntracked, Known, R
    <3>6. ResumedStays' /\ DownIdle'
      BY <2>1, <2>2, <3>2 DEF ResumedStays, DownIdle
    <3>7. TrackedInv'
      BY <2>1, <2>2, <2>3, <3>2, <3>3 DEF StopInv, TrackedInv, Working
    <3>8. Window' = {R.stop.target}
      BY <3>2 DEF Window, R
    <3>9. JournaledInv'
      BY <2>2, <2>3, <3>3, <3>8 DEF StopInv, JournaledInv
    <3>10. QED BY <1>1, <3>4, <3>5, <3>6, <3>7, <3>9 DEF StopInv
  <2>4. CASE /\ stopped' = stopped \cup {R.stop.target}
             /\ lost' = lost \cup {R.stop.target}
             /\ Done("reconciler")
    <3>1. R' = Idle /\ \A o \in Actor : o # "reconciler" => task'[o] = task[o]
      BY <1>1, <2>4, IdleTask, GotoType, Reconciler DEF Done, R
    <3>2. R'.op = "idle"
      BY <3>1 DEF Idle
    <3>3. \A a, t : Resumed(a, t)' => Resumed(a, t)
      BY <3>1, <3>2, Reconciler, ResumedBefore DEF R, Past
    <3>4. ReleasesOwn' /\ NoteUntracked' /\ ResumedStays' /\ DownIdle'
      BY <2>1, <2>2, <3>1, <3>2
      DEF StopInv, ReleasesOwn, NoteUntracked, ResumedStays, DownIdle, R
    <3>5. TrackedInv'
      BY <2>1, <2>2, <2>4, <3>3 DEF StopInv, TrackedInv, Working
    <3>6. JournaledInv'
      BY <2>2, <2>4, <3>3 DEF StopInv, JournaledInv
    <3>7. QED BY <1>1, <3>4, <3>5, <3>6 DEF StopInv
  <2>5. CASE Done("reconciler") /\ UNCHANGED <<stopped, lost>>
    BY <1>10, <1>12, <2>2, <2>5 DEF Suspend, R
  <2>6. QED BY <1>12, <2>3, <2>4, <2>5 DEF Suspend, R
<1>13. CASE Note
  <2>1. tracked[R.stop.kind][R.agent] = None /\ R.op \in {"freeze", "note"}
    BY <1>13 DEF StopInv, NoteUntracked, Note, R
  <2>2. Remember /\ UNCHANGED <<radar, stopped, rows, unrecorded>>
    BY <1>13 DEF Note, environment
  <2>3. QED BY <1>1, <2>1, <2>2, RememberStep DEF StopInv
<1>14. CASE JournalMirror
  <2>1. R \in [op : Stopping, agent : Agent, stop : Stop] /\ radar # "down"
    BY <1>1, <1>14, TaskParts, Reconciler DEF JournalMirror, R, Stopping, StopInv, DownIdle, Idle
  <2>2. /\ R' = [R EXCEPT !.op = "row"] /\ R.op = "mirror"
        /\ \A o \in Actor : o # "reconciler" => task'[o] = task[o]
    BY <1>1, <1>14, Reconciler DEF JournalMirror, Goto, R, TypeOK
  <2>3. R'.op = "row" /\ R'.agent = R.agent /\ R'.stop = R.stop
    BY <2>1, <2>2
  <2>4. UNCHANGED <<stopped, tracked, rows, lost, unrecorded, radar>>
    BY <1>14 DEF JournalMirror, environment, history
  <2>5. \A a, t : Resumed(a, t)' => Resumed(a, t)
    BY <2>2, <2>3, Reconciler, ResumedBefore DEF R, Past
  <2>6. Window' = Window
    BY <2>2, <2>3 DEF Window, R
  <2>7. NoteUntracked' /\ ResumedStays' /\ TrackedInv' /\ JournaledInv'
    BY <2>2, <2>3, <2>4, <2>5, <2>6, BooksKept DEF Working
  <2>8. ReleasesOwn' /\ DownIdle'
    BY <2>1, <2>2, <2>3, <2>4 DEF StopInv, ReleasesOwn, DownIdle, R
  <2>9. QED BY <1>1, <2>7, <2>8 DEF StopInv
<1>15. CASE JournalRow
  <2>1. R \in [op : Stopping, agent : Agent, stop : Stop] /\ radar # "down"
    BY <1>1, <1>15, TaskParts, Reconciler DEF JournalRow, R, Stopping, StopInv, DownIdle, Idle
  <2>2. /\ R' = Idle /\ R.op = "row"
        /\ \A o \in Actor : o # "reconciler" => task'[o] = task[o]
    BY <1>1, <1>15, IdleTask, GotoType, Reconciler DEF JournalRow, Done, R
  <2>3. R'.op = "idle" /\ Window = {R.stop.target}
    BY <2>2 DEF Idle, Window, R
  <2>4. UNCHANGED <<stopped, tracked, lost, radar>>
    BY <1>15 DEF JournalRow, environment
  <2>5. \A a, t : Resumed(a, t)' => Resumed(a, t)
    BY <2>2, <2>3, Reconciler, ResumedBefore DEF R, Past
  <2>6. ReleasesOwn' /\ NoteUntracked' /\ ResumedStays' /\ DownIdle'
    BY <2>1, <2>2, <2>3, <2>4
    DEF StopInv, ReleasesOwn, NoteUntracked, ResumedStays, DownIdle, R
  <2>7. TrackedInv'
    BY <2>1, <2>2, <2>4, <2>5 DEF StopInv, TrackedInv
  <2>8. JournaledInv'
    <3>1. SUFFICES ASSUME NEW t \in stopped, t \notin lost
                   PROVE  \/ t \in unrecorded'
                          \/ \E a \in Agent : rows'[a] # NoRow /\ rows'[a].target = t /\ ~Resumed(a, t)'
      BY <2>4 DEF JournaledInv
    <3>2. CASE rows' = [rows EXCEPT ![R.agent] = R.stop]
               /\ unrecorded' = (unrecorded \cup Journaled(R.agent)) \ {R.stop.target}
      <4>1. rows'[R.agent] = R.stop /\ R.stop # NoRow
        BY <1>1, <2>1, <3>2, NoRowNoStop DEF TypeOK
      <4>2. \A a \in Agent : a # R.agent => rows'[a] = rows[a]
        BY <1>1, <3>2 DEF TypeOK
      <4>3. CASE t = R.stop.target
        <5>1. ~Resumed(R.agent, t)
          BY <2>2, <3>1, <4>3 DEF StopInv, ResumedStays
        <5>2. QED BY <2>1, <2>5, <4>1, <4>3, <5>1
      <4>4. CASE t # R.stop.target
        <5>1. CASE t \in unrecorded
          BY <3>2, <4>4, <5>1
        <5>2. CASE t \notin unrecorded
          <6>1. PICK a \in Agent : rows[a] # NoRow /\ rows[a].target = t /\ ~Resumed(a, t)
            BY <2>3, <3>1, <4>4, <5>2 DEF StopInv, JournaledInv
          <6>2. CASE a = R.agent
            BY <3>2, <4>4, <6>1, <6>2 DEF Journaled
          <6>3. CASE a # R.agent
            BY <2>5, <4>2, <6>1, <6>3
          <6>4. QED BY <6>2, <6>3
        <5>3. QED BY <5>1, <5>2
      <4>5. QED BY <4>3, <4>4
    <3>3. CASE unrecorded' = unrecorded \cup {R.stop.target} /\ UNCHANGED rows
      BY <2>3, <2>5, <3>1, <3>3 DEF StopInv, JournaledInv
    <3>4. QED BY <1>15, <3>2, <3>3 DEF JournalRow, R
  <2>9. QED BY <1>1, <2>6, <2>7, <2>8 DEF StopInv
<1>16. ASSUME NEW th \in Actor, Continue(th)
       PROVE  StopInv'
  <2>1. task[th] \in [op : Releasing, agent : Agent, stop : Stop,
                      then : {"keep", "remove"}, view : {"current", "overtaken"}]
    BY <1>1, <1>16, TaskParts DEF Continue, Releasing
  <2>2. /\ task'[th] = [task[th] EXCEPT !.op = "forget"] /\ task[th].op = "continue"
        /\ \A o \in Actor : o # th => task'[o] = task[o]
    BY <1>1, <1>16 DEF Continue, Goto, TypeOK
  <2>3. /\ task'[th].op = "forget" /\ task'[th].agent = task[th].agent
        /\ task'[th].stop = task[th].stop /\ task'[th].view = task[th].view
    BY <2>1, <2>2
  <2>4. UNCHANGED <<radar, tracked, rows>>
    BY <1>16 DEF Continue, environment, books
  <2>5. /\ Window' = Window
        /\ R.op \in Working \/ R'.op \in Working => R' = R
    BY <2>2, <2>3, Elsewhere DEF Working
  <2>6. \A a, t : Resumed(a, t)' => Resumed(a, t) \/ t = task[th].stop.target
    BY <2>2, <2>3 DEF Resumed
  <2>7. \/ /\ stopped' = stopped \ {task[th].stop.target}
           /\ lost' = lost \ {task[th].stop.target}
           /\ unrecorded' = unrecorded \ {task[th].stop.target}
        \/ /\ stopped' = stopped
           /\ lost' = lost \cup {task[th].stop.target}
           /\ unrecorded' = unrecorded
    BY <1>16 DEF Continue
  <2>8. \A t \in stopped' : /\ t \in stopped
                            /\ t \in lost => t \in lost'
                            /\ t \in unrecorded => t \in unrecorded'
                            /\ t = task[th].stop.target => t \in lost'
    BY <2>7
  <2>9. ReleasesOwn'
    BY <2>2, <2>3, <2>4, ZenonT(40) DEF StopInv, ReleasesOwn
  <2>10. NoteUntracked'
    BY <2>4, <2>5 DEF StopInv, NoteUntracked, Working
  <2>11. ResumedStays'
    <3>1. SUFFICES ASSUME R'.op \in {"mirror", "row"},
                          NEW a, NEW t, a = R'.agent, t = R'.stop.target,
                          Resumed(a, t)', t \in stopped'
                   PROVE  t \in lost'
      BY DEF ResumedStays, Resumed
    <3>2. R' = R
      BY <2>5, <3>1 DEF Working
    <3>3. CASE Resumed(a, t)
      BY <2>8, <3>1, <3>2, <3>3 DEF StopInv, ResumedStays
    <3>4. CASE t = task[th].stop.target
      BY <2>8, <3>1, <3>4
    <3>5. QED BY <2>6, <3>1, <3>3, <3>4
  <2>12. DownIdle'
    BY <2>2, <2>4 DEF StopInv, DownIdle, Idle
  <2>13. TrackedInv'
    <3>1. SUFFICES ASSUME radar # "down", NEW t \in stopped', t \notin lost'
                   PROVE  \/ R'.op = "note" /\ R'.stop.target = t
                          \/ \E k \in Kind, a \in Agent : tracked[k][a] = t /\ ~Resumed(a, t)'
      BY <2>4 DEF TrackedInv
    <3>2. t \in stopped /\ t \notin lost /\ t # task[th].stop.target
      BY <2>8, <3>1
    <3>3. CASE R.op = "note" /\ R.stop.target = t
      BY <2>5, <3>3 DEF Working
    <3>4. CASE \E k \in Kind, a \in Agent : tracked[k][a] = t /\ ~Resumed(a, t)
      BY <2>6, <3>2, <3>4
    <3>5. QED BY <3>1, <3>2, <3>3, <3>4 DEF StopInv, TrackedInv
  <2>14. JournaledInv'
    <3>1. SUFFICES ASSUME NEW t \in stopped', t \notin lost', t \notin unrecorded'
                   PROVE  \/ t \in Window'
                          \/ \E a \in Agent : rows[a] # NoRow /\ rows[a].target = t /\ ~Resumed(a, t)'
      BY <2>4 DEF JournaledInv
    <3>2. t \in stopped /\ t \notin lost \cup unrecorded /\ t # task[th].stop.target
      BY <2>8, <3>1
    <3>3. QED BY <2>5, <2>6, <3>2 DEF StopInv, JournaledInv
  <2>15. QED BY <1>1, <2>9, <2>10, <2>11, <2>12, <2>13, <2>14 DEF StopInv
<1>17. ASSUME NEW th \in Actor, Forget(th)
       PROVE  StopInv'
  <2>1. task[th] \in [op : Releasing, agent : Agent, stop : Stop,
                      then : {"keep", "remove"}, view : {"current", "overtaken"}]
    BY <1>1, <1>17, TaskParts DEF Forget, Releasing
  <2>2. /\ task'[th] = [task[th] EXCEPT !.op = "unmirror"] /\ task[th].op = "forget"
        /\ \A o \in Actor : o # th => task'[o] = task[o]
    BY <1>1, <1>17 DEF Forget, Goto, TypeOK
  <2>3. /\ task'[th].op = "unmirror" /\ task'[th].agent = task[th].agent
        /\ task'[th].stop = task[th].stop /\ task'[th].view = task[th].view
    BY <2>1, <2>2
  <2>4. UNCHANGED <<radar, stopped, rows, unrecorded>>
    BY <1>17 DEF Forget, environment
  <2>5. /\ Window' = Window
        /\ R.op \in Working \/ R'.op \in Working => R' = R
    BY <2>2, <2>3, Elsewhere DEF Working
  <2>6. ASSUME NEW a, NEW t, Resumed(a, t)'
        PROVE  Resumed(a, t)
    <3>1. PICK o \in Actor : /\ task'[o].op \in Past
                             /\ task'[o].view = "current"
                             /\ task'[o].agent = a
                             /\ task'[o].stop.target = t
      BY <2>6 DEF Resumed
    <3>2. CASE o = th
      <4>1. task[th].op \in Past
        BY <2>2 DEF Past
      <4>2. QED BY <2>3, <3>1, <3>2, <4>1 DEF Resumed
    <3>3. CASE o # th
      BY <2>2, <3>1, <3>3 DEF Resumed
    <3>4. QED BY <3>2, <3>3
  <2>7. /\ tracked' = [tracked EXCEPT ![task[th].stop.kind][task[th].agent] = None]
        /\ lost' = IF task[th].view = "overtaken"
                   THEN lost \cup ({tracked[task[th].stop.kind][task[th].agent]} \ {None}) ELSE lost
    BY <1>17 DEF Forget
  <2>8. task[th].agent \in Agent /\ task[th].stop.kind \in Kind
    BY <2>1, StopParts
  <2>9. \A k \in Kind, a \in Agent :
          \/ tracked'[k][a] = tracked[k][a]
          \/ tracked'[k][a] = None /\ k = task[th].stop.kind /\ a = task[th].agent
    BY <1>1, <2>7, <2>8 DEF TypeOK
  <2>10. ReleasesOwn'
    <3>1. SUFFICES ASSUME NEW o \in Actor,
                          task'[o].op \in {"continue", "forget"}, task'[o].view = "current"
                   PROVE  tracked'[task'[o].stop.kind][task'[o].agent] \in {None, task'[o].stop.target}
      BY DEF ReleasesOwn
    <3>2. task'[o] = task[o]
      BY <2>2, <2>3, <3>1
    <3>3. task[o].agent \in Agent /\ task[o].stop.kind \in Kind
      BY <1>1, <3>1, <3>2, TaskParts, StopParts DEF Releasing
    <3>4. tracked[task[o].stop.kind][task[o].agent] \in {None, task[o].stop.target}
      BY <3>1, <3>2 DEF StopInv, ReleasesOwn
    <3>5. QED BY <2>9, <3>2, <3>3, <3>4
  <2>11. NoteUntracked'
    <3>1. SUFFICES ASSUME R'.op = "note"
                   PROVE  tracked'[R'.stop.kind][R'.agent] = None
      BY DEF NoteUntracked
    <3>2. R' = R /\ R.op = "note"
      BY <2>5, <3>1 DEF Working
    <3>3. R.agent \in Agent /\ R.stop.kind \in Kind
      BY <1>1, <3>2, TaskParts, StopParts, Reconciler DEF R, Stopping
    <3>4. tracked[R.stop.kind][R.agent] = None
      BY <3>2 DEF StopInv, NoteUntracked
    <3>5. QED BY <2>9, <3>2, <3>3, <3>4
  <2>12. lost \subseteq lost'
    BY <2>7
  <2>13. ResumedStays'
    <3>1. SUFFICES ASSUME R'.op \in {"mirror", "row"},
                          NEW a, NEW t, a = R'.agent, t = R'.stop.target, Resumed(a, t)'
                   PROVE  t \notin stopped' \/ t \in lost'
      BY DEF ResumedStays, Resumed
    <3>2. R' = R /\ Resumed(a, t)
      BY <2>5, <2>6, <3>1 DEF Working
    <3>3. QED BY <2>4, <2>12, <3>1, <3>2 DEF StopInv, ResumedStays
  <2>14. DownIdle'
    BY <2>2, <2>4 DEF StopInv, DownIdle, Idle
  <2>15. TrackedInv'
    <3>1. SUFFICES ASSUME radar # "down", NEW t \in stopped, t \notin lost'
                   PROVE  \/ R'.op = "note" /\ R'.stop.target = t
                          \/ \E k \in Kind, a \in Agent : tracked'[k][a] = t /\ ~Resumed(a, t)'
      BY <2>4 DEF TrackedInv
    <3>2. CASE R.op = "note" /\ R.stop.target = t
      BY <2>5, <3>2 DEF Working
    <3>3. CASE ~(R.op = "note" /\ R.stop.target = t)
      <4>1. PICK k \in Kind, a \in Agent : tracked[k][a] = t /\ ~Resumed(a, t)
        BY <2>12, <3>1, <3>3 DEF StopInv, TrackedInv
      <4>2. CASE k = task[th].stop.kind /\ a = task[th].agent
        <5>1. t # None
          BY <1>1, <3>1, TargetAssumption DEF TypeOK
        <5>2. CASE task[th].view = "overtaken"
          BY <2>7, <3>1, <4>1, <4>2, <5>1, <5>2
        <5>3. CASE task[th].view = "current"
          <6>1. t = task[th].stop.target
            BY <2>2, <4>1, <4>2, <5>1, <5>3 DEF StopInv, ReleasesOwn
          <6>2. Resumed(a, t)
            BY <2>2, <4>2, <5>3, <6>1 DEF Resumed, Past
          <6>3. QED BY <4>1, <6>2
        <5>4. QED BY <2>1, <5>2, <5>3
      <4>3. CASE ~(k = task[th].stop.kind /\ a = task[th].agent)
        BY <2>6, <2>9, <4>1, <4>3
      <4>4. QED BY <4>2, <4>3
    <3>4. QED BY <3>2, <3>3
  <2>16. JournaledInv'
    <3>1. SUFFICES ASSUME NEW t \in stopped, t \notin lost'
                   PROVE  \/ t \in unrecorded \cup Window
                          \/ \E a \in Agent : rows[a] # NoRow /\ rows[a].target = t /\ ~Resumed(a, t)'
      BY <2>4, <2>5 DEF JournaledInv
    <3>2. QED BY <2>6, <2>12, <3>1 DEF StopInv, JournaledInv
  <2>17. QED BY <1>1, <2>10, <2>11, <2>13, <2>14, <2>15, <2>16 DEF StopInv
<1>18. ASSUME NEW th \in Actor, task[th].op \in Releasing
       PROVE  /\ AfterStop(task[th]) \in Task
              /\ AfterStop(task[th]).op \notin Working \cup Past
              /\ \/ AfterStop(task[th]).op # "continue"
                 \/ AfterStop(task[th]).stop.target
                      = tracked[AfterStop(task[th]).stop.kind][AfterStop(task[th]).agent]
  <2>1. AfterStop(task[th]) \in Task
    BY <1>1, <1>18, AfterStopType
  <2>2. CASE AfterStop(task[th]).op \in {"idle", "remove"}
    BY <2>1, <2>2 DEF Working, Past
  <2>3. CASE AfterStop(task[th]) = Releases(task[th].agent, "remote", task[th].then)
    <3>1. /\ AfterStop(task[th]).op = "continue"
          /\ AfterStop(task[th]).agent = task[th].agent
          /\ AfterStop(task[th]).stop
               = [kind |-> "remote", target |-> tracked["remote"][task[th].agent]]
      BY <2>3 DEF Releases
    <3>2. QED BY <2>1, <3>1 DEF Working, Past
  <2>4. QED BY <1>1, <1>18, <2>2, <2>3, AfterStopType
<1>19. ASSUME NEW th \in Actor, JournalUnmirror(th)
       PROVE  StopInv'
  <2>1. task[th].op = "unmirror" /\ task[th].op \in Releasing /\ task[th].op \notin Working
    BY <1>19 DEF JournalUnmirror, Releasing, Working
  <2>2. radar # "down"
    BY <2>1 DEF StopInv, DownIdle, Idle
  <2>3. UNCHANGED <<stopped, tracked, rows, lost, unrecorded, radar>>
    BY <1>19 DEF JournalUnmirror, environment, history
  <2>4. CASE Goto(th, AfterStop(task[th]))
    BY <1>3, <1>18, <2>1, <2>2, <2>3, <2>4
  <2>5. CASE Goto(th, [task[th] EXCEPT !.op = "unrow"])
    <3>1. task[th] \in [op : Releasing, agent : Agent, stop : Stop,
                        then : {"keep", "remove"}, view : {"current", "overtaken"}]
      BY <1>1, <2>1, TaskParts
    <3>2. /\ task'[th] = [task[th] EXCEPT !.op = "unrow"]
          /\ \A o \in Actor : o # th => task'[o] = task[o]
      BY <1>1, <2>5 DEF Goto, TypeOK
    <3>3. /\ task'[th].op = "unrow" /\ task'[th].agent = task[th].agent
          /\ task'[th].stop = task[th].stop /\ task'[th].view = task[th].view
      BY <3>1, <3>2
    <3>4. /\ Window' = Window
          /\ R.op \in Working \/ R'.op \in Working => R' = R
      BY <2>1, <3>2, <3>3, Elsewhere DEF Working
    <3>5. ASSUME NEW a, NEW t, Resumed(a, t)'
          PROVE  Resumed(a, t)
      <4>1. PICK o \in Actor : /\ task'[o].op \in Past
                               /\ task'[o].view = "current"
                               /\ task'[o].agent = a
                               /\ task'[o].stop.target = t
        BY <3>5 DEF Resumed
      <4>2. CASE o = th
        <5>1. task[th].op \in Past
          BY <2>1 DEF Past
        <5>2. QED BY <3>3, <4>1, <4>2, <5>1 DEF Resumed
      <4>3. CASE o # th
        BY <3>2, <4>1, <4>3 DEF Resumed
      <4>4. QED BY <4>2, <4>3
    <3>6. NoteUntracked' /\ ResumedStays' /\ TrackedInv' /\ JournaledInv'
      BY <2>3, <3>4, <3>5, BooksKept DEF Working
    <3>7. ReleasesOwn' /\ DownIdle'
      BY <2>2, <2>3, <3>2, <3>3 DEF StopInv, ReleasesOwn, DownIdle
    <3>8. QED BY <1>1, <3>6, <3>7 DEF StopInv
  <2>6. QED BY <1>19, <2>4, <2>5 DEF JournalUnmirror
<1>20. ASSUME NEW th \in Actor, JournalUnrow(th)
       PROVE  StopInv'
  <2>1. task[th] \in [op : Releasing, agent : Agent, stop : Stop,
                      then : {"keep", "remove"}, view : {"current", "overtaken"}]
        /\ task[th].op = "unrow"
    BY <1>1, <1>20, TaskParts DEF JournalUnrow, Releasing
  <2>2. /\ task'[th] = AfterStop(task[th]) /\ task'[th].op \notin Working \cup Past
        /\ task[th].op \notin Working
        /\ \A o \in Actor : o # th => task'[o] = task[o]
    BY <1>1, <1>18, <1>20, <2>1, GotoType DEF JournalUnrow, Releasing, Working
  <2>3. UNCHANGED <<radar, stopped, tracked, lost>> /\ radar # "down"
    BY <1>20, <2>1 DEF JournalUnrow, environment, StopInv, DownIdle, Idle
  <2>4. \A a, t : Resumed(a, t)' => Resumed(a, t)
    BY <2>2, ResumedBefore
  <2>5. /\ Window' = Window
        /\ R.op \in Working \/ R'.op \in Working => R' = R
    BY <2>2, Elsewhere
  <2>6. ReleasesOwn'
    <3>1. \/ task'[th].op # "continue"
          \/ task'[th].stop.target = tracked[task'[th].stop.kind][task'[th].agent]
      BY <1>18, <2>1, <2>2 DEF Releasing
    <3>2. task'[th].op # "forget"
      BY <2>2 DEF Past
    <3>3. QED BY <2>2, <2>3, <3>1, <3>2 DEF StopInv, ReleasesOwn
  <2>7. NoteUntracked'
    BY <2>3, <2>5 DEF StopInv, NoteUntracked, Working
  <2>8. ResumedStays'
    <3>1. SUFFICES ASSUME R'.op \in {"mirror", "row"},
                          NEW a, NEW t, a = R'.agent, t = R'.stop.target, Resumed(a, t)'
                   PROVE  t \notin stopped \/ t \in lost
      BY <2>3 DEF ResumedStays, Resumed
    <3>2. R' = R /\ Resumed(a, t)
      BY <2>4, <2>5, <3>1 DEF Working
    <3>3. QED BY <3>1, <3>2 DEF StopInv, ResumedStays
  <2>9. DownIdle'
    BY <2>3 DEF DownIdle
  <2>10. TrackedInv'
    <3>1. SUFFICES ASSUME NEW t \in stopped, t \notin lost
                   PROVE  \/ R'.op = "note" /\ R'.stop.target = t
                          \/ \E k \in Kind, a \in Agent : tracked[k][a] = t /\ ~Resumed(a, t)'
      BY <2>3 DEF TrackedInv
    <3>2. CASE R.op = "note" /\ R.stop.target = t
      BY <2>5, <3>2 DEF Working
    <3>3. CASE ~(R.op = "note" /\ R.stop.target = t)
      BY <2>3, <2>4, <3>1, <3>3 DEF StopInv, TrackedInv
    <3>4. QED BY <3>2, <3>3
  <2>11. JournaledInv'
    <3>1. SUFFICES ASSUME NEW t \in stopped, t \notin lost, t \notin Window
                   PROVE  \/ t \in unrecorded'
                          \/ \E a \in Agent : rows'[a] # NoRow /\ rows'[a].target = t /\ ~Resumed(a, t)'
      BY <2>3, <2>5 DEF JournaledInv
    <3>2. CASE UNCHANGED <<rows, unrecorded>>
      BY <2>4, <3>1, <3>2 DEF StopInv, JournaledInv
    <3>3. CASE /\ rows' = [rows EXCEPT ![task[th].agent] = NoRow]
               /\ unrecorded' = IF task[th].view = "overtaken"
                                THEN unrecorded \cup Journaled(task[th].agent)
                                ELSE unrecorded \cup (Journaled(task[th].agent) \ {task[th].stop.target})
      <4>1. CASE t \in unrecorded
        BY <3>3, <4>1
      <4>2. CASE t \notin unrecorded
        <5>1. PICK a \in Agent : rows[a] # NoRow /\ rows[a].target = t /\ ~Resumed(a, t)
          BY <3>1, <4>2 DEF StopInv, JournaledInv
        <5>2. CASE a = task[th].agent
          <6>1. t \in Journaled(task[th].agent)
            BY <5>1, <5>2 DEF Journaled
          <6>2. task[th].view = "overtaken" \/ t # task[th].stop.target
            BY <2>1, <5>1, <5>2 DEF Resumed, Past
          <6>3. QED BY <3>3, <6>1, <6>2
        <5>3. CASE a # task[th].agent
          <6>1. rows'[a] = rows[a]
            BY <1>1, <3>3, <5>3 DEF TypeOK
          <6>2. QED BY <2>4, <5>1, <6>1
        <5>4. QED BY <5>2, <5>3
      <4>3. QED BY <4>1, <4>2
    <3>4. QED BY <1>20, <3>2, <3>3 DEF JournalUnrow
  <2>12. QED BY <1>1, <2>6, <2>7, <2>8, <2>9, <2>10, <2>11 DEF StopInv
<1>21. ASSUME NEW th \in Actor, Remove(th)
       PROVE  StopInv'
  <2>1. task[th].op \notin Working /\ Idle.op \notin Working \cup Past \cup {"continue"}
    BY <1>21 DEF Remove, Idle, Working, Past
  <2>2. radar # "down" /\ Goto(th, Idle)
    BY <1>21 DEF Remove, Done, StopInv, DownIdle, Idle
  <2>3. UNCHANGED <<stopped, tracked, rows, lost, unrecorded, radar>>
    BY <1>21 DEF Remove, books, history
  <2>4. QED BY <1>3, <2>1, <2>2, <2>3, IdleTask
<1>22. CASE Shutdown
  BY <1>2, <1>22 DEF Shutdown, books, history
<1>23. ASSUME Die, UNCHANGED lost, unrecorded \cup Window \subseteq unrecorded'
       PROVE  StopInv'
  <2>1. \A th \in Actor : task'[th] = Idle /\ task'[th].op = "idle"
    BY <1>23 DEF Die, Idle
  <2>2. R' = Idle /\ R'.op = "idle"
    BY <2>1, Reconciler DEF R
  <2>3. ReleasesOwn' /\ NoteUntracked' /\ ResumedStays' /\ DownIdle'
    BY <2>1, <2>2 DEF ReleasesOwn, NoteUntracked, ResumedStays, DownIdle
  <2>4. TrackedInv'
    BY <1>23 DEF Die, TrackedInv
  <2>5. \A a, t : ~Resumed(a, t)'
    BY <2>1 DEF Resumed, Past
  <2>6. JournaledInv'
    BY <1>23, <2>5 DEF Die, StopInv, JournaledInv
  <2>7. QED BY <1>1, <2>3, <2>4, <2>6 DEF StopInv
<1>24. CASE Exit
  <2>1. Window = {}
    BY <1>24, Reconciler DEF Exit, Window, Idle
  <2>2. QED BY <1>23, <1>24, <2>1 DEF Exit, history
<1>25. CASE Crash
  BY <1>23, <1>25 DEF Crash
<1>26. CASE Start
  <2>1. \A th \in Actor : task[th] = Idle /\ task'[th] = task[th] /\ task'[th].op = "idle"
    BY <1>26 DEF Start, StopInv, DownIdle, Idle
  <2>2. R.op = "idle" /\ R'.op = "idle"
    BY <2>1, Reconciler DEF R
  <2>3. ReleasesOwn' /\ NoteUntracked' /\ ResumedStays' /\ DownIdle'
    BY <2>1, <2>2 DEF ReleasesOwn, NoteUntracked, ResumedStays, DownIdle
  <2>4. Window = {}
    BY <2>2 DEF Window, R
  <2>5. stopped \subseteq lost \cup unrecorded \cup InJournal
    BY <2>4 DEF StopInv, JournaledInv, InJournal, Journaled
  <2>6. stopped' \subseteq lost'
    BY <1>26, <2>5 DEF Start
  <2>7. TrackedInv' /\ JournaledInv'
    BY <2>6 DEF TrackedInv, JournaledInv
  <2>8. QED BY <1>1, <2>3, <2>7 DEF StopInv
<1>27. CASE UNCHANGED vars
  BY <1>2, <1>27 DEF vars, books, history
<1>28. QED BY <1>5, <1>6, <1>7, <1>8, <1>9, <1>11, <1>12, <1>13, <1>14, <1>15, <1>16,
              <1>17, <1>19, <1>20, <1>21, <1>22, <1>24, <1>25, <1>26, <1>27
           DEF Next, Reconcile, ReleaseStep

-----------------------------------------------------------------------------
(* The bookkeeping and the journal of the hard stop have their types.      *)
THEOREM TypeCorrect == Spec => []TypeOK
<1>1. Init => TypeOK
  BY TypeInit
<1>2. TypeOK /\ [Next]_vars => TypeOK'
  BY TypeStep
<1>3. QED BY <1>1, <1>2, PTL DEF Spec

THEOREM StopInvariant == Spec => []StopInv
<1>1. Init => StopInv
  BY StopInit
<1>2. StopInv /\ [Next]_vars => StopInv'
  BY StopStep
<1>3. QED BY <1>1, <1>2, PTL DEF Spec

(* Whatever threads stop, release, remove, shut down or crash in between,  *)
(* and however many agents share a target, a running radar knows what it   *)
(* has stopped, up to the faults StopsTracked names (radar/api.py).         *)
THEOREM StopsStayTracked == Spec => []StopsTracked
<1>1. StopInv => StopsTracked
  <2>1. SUFFICES ASSUME StopInv, radar # "down", NEW t \in stopped
                 PROVE  TrackedTarget(t) \/ t \in lost \/ t \in Window
    BY DEF StopsTracked
  <2>2. CASE R.op = "note" /\ R.stop.target = t
    BY <2>2 DEF Window, R
  <2>3. CASE \E k \in Kind, a \in Agent : tracked[k][a] = t /\ ~Resumed(a, t)
    BY <2>3 DEF TrackedTarget
  <2>4. QED BY <2>1, <2>2, <2>3 DEF StopInv, TrackedInv
<1>2. QED BY <1>1, StopInvariant, PTL

(* "Every stop WE apply is recorded in registry.freeze_journal", up to the *)
(* window and the lost rows StopsJournaled names.                          *)
THEOREM StopsStayJournaled == Spec => []StopsJournaled
<1>1. StopInv => StopsJournaled
  <2>1. SUFFICES ASSUME StopInv, NEW t \in stopped
                 PROVE  t \in InJournal \cup lost \cup unrecorded \cup Window
    BY DEF StopsJournaled
  <2>2. CASE \E a \in Agent : rows[a] # NoRow /\ rows[a].target = t
    BY <2>2 DEF InJournal, Journaled
  <2>3. QED BY <2>1, <2>2 DEF StopInv, JournaledInv
<1>2. QED BY <1>1, StopInvariant, PTL
=============================================================================
