-------------------------- MODULE DegradationLadder --------------------------
(***************************************************************************)
(* How one agent's autonomy moves on its ladder: outcome signals, token    *)
(* breaches, operator overrides, (re-)registrations and restarts           *)
(* (radar/api.py, policy.py, store.py).  Entries of different agents share *)
(* nothing of this but the transaction that stores them, so the module     *)
(* follows one agent and keeps of the others whether their rows are        *)
(* accepted.                                                               *)
(*                                                                         *)
(* signal, the breach callback and set_autonomy read the entry first and   *)
(* patch it later: two actions each, with the snapshot in inflight.        *)
(***************************************************************************)
EXTENDS Policy

CONSTANTS
  Pool,             (* threads that run handlers                            *)
  Declarations,     (* what a registration declares: its ladder, its        *)
                    (* budget and whether that is its own (failure_budget)  *)
                    (* or the one of its risk tier                          *)
  Full,             (* the profile of a fresh entry, "active"               *)
  Storable,         (* the profiles the CHECK of registry.agents accepts    *)
  Faults,           (* what may go wrong with the rows beside the agent's   *)
                    (* own rung: "database", "neighbour"                    *)
  Bound             (* failures at the hard stop are counted up to this     *)

Ladder == {d.ladder : d \in Declarations}
Rung == {Full} \cup UNION {{l[i] : i \in DOMAIN l} : l \in Ladder}
Budget == {d.budget : d \in Declarations}

ASSUME DeclarationAssumption ==
  \A d \in Declarations :
    /\ d.ladder \in Seq(STRING) /\ d.ladder # <<>>
    /\ \A i, j \in DOMAIN d.ladder : d.ladder[i] = d.ladder[j] => i = j
    /\ d.budget \in Nat \ {0}
    /\ d.own \in BOOLEAN
ASSUME FaultAssumption == Faults \subseteq {"database", "neighbour"}
ASSUME BoundAssumption == Bound \in Nat

Entry == [profile : Rung, failures : Nat, ladder : Ladder, budget : Budget, own : BOOLEAN]
Unregistered == [absent |-> TRUE]
Row == Entry \cup {Unregistered}
NoTask == [op |-> "idle"]
LadderTask ==
  {NoTask}
    \cup [op : {"signal"}, ok : BOOLEAN, seen : Entry]
    \cup [op : {"breach"}, seen : Entry]
    \cup [op : {"override"}, profile : Rung]

VARIABLES
  entry,            (* the agent's entry in the registry                    *)
  saved,            (* its row in registry.agents                           *)
  reachable,        (* whether Postgres answers                             *)
  mirrored,         (* _PgBackend.ok, settled when the process starts       *)
  refused,          (* whether a CHECK refuses another agent's entry        *)
  inflight,         (* what each thread is in the middle of                 *)
  overlapped        (* history: whether two handlers were ever under way    *)
                    (* together                                             *)
database == <<reachable, mirrored, refused>>
ladderVars == <<entry, saved, database, inflight, overlapped>>

Free(th) == inflight[th] = NoTask
Begin(th, task) ==
  /\ inflight' = [inflight EXCEPT ![th] = task]
  /\ overlapped' = (overlapped \/ \E other \in Pool \ {th} : ~Free(other))
Finish(th) == Begin(th, NoTask)

(* Every write to the registry ends with one transaction over the rows of  *)
(* all agents.  A value that a CHECK refuses, the agent's or another's, or *)
(* a database that does not answer leaves every row as it was, and is      *)
(* logged.                                                                 *)
Accepted(new) == new = Unregistered \/ new.profile \in Storable

Mirror(new, othersRefused) ==
  saved' = IF mirrored /\ reachable /\ ~othersRefused /\ Accepted(new) THEN new ELSE saved

Store(new) ==
  /\ entry' = new
  /\ Mirror(new, refused)
  /\ UNCHANGED database

KeepStore == UNCHANGED <<entry, saved, database>>

FreshUnset(d) == [profile |-> "", failures |-> 0, ladder |-> d.ladder,
                  budget |-> d.budget, own |-> d.own]

Fresh(d) == [profile |-> Full, failures |-> 0, ladder |-> d.ladder,
             budget |-> d.budget, own |-> d.own]

LadderInit ==
  /\ entry = Unregistered
  /\ saved = Unregistered
  /\ reachable \in BOOLEAN /\ ("database" \notin Faults => reachable)
  /\ mirrored = reachable
  /\ refused = FALSE
  /\ inflight = [th \in Pool |-> NoTask]
  /\ overlapped = FALSE

(***************************************************************************)
(* Registration.  An agent also registers again when it is restarted and   *)
(* when a heartbeat stays unanswered; the entry is built anew each time.   *)
(***************************************************************************)
RegisterKeepsProfile(th) ==
  /\ Free(th)
  /\ \E d \in Declarations :
       Store(IF entry = Unregistered THEN Fresh(d) ELSE [Fresh(d) EXCEPT !.profile = entry.profile])
  /\ Finish(th)

RegisterAnew(th) ==
  /\ Free(th)
  /\ \E d \in Declarations : Store(Fresh(d))
  /\ Finish(th)

RemoveEntry(th) ==
  /\ Free(th)
  /\ entry # Unregistered
  /\ Store(Unregistered)
  /\ Finish(th)

(***************************************************************************)
(* Outcome signals.  A heartbeat is a signal with ok = TRUE.               *)
(***************************************************************************)
SignalRead(th, ok) ==
  /\ Free(th)
  /\ entry # Unregistered
  /\ ok \/ entry.failures < Bound \/ entry.profile # LastRung(entry.ladder)
  /\ Begin(th, [op |-> "signal", ok |-> ok, seen |-> entry])
  /\ KeepStore

(* The patch of apply_signal comes from the snapshot and lands on whatever *)
(* entry is there by now; when there is none the request fails.            *)
SignalWrite(th) ==
  /\ inflight[th].op = "signal"
  /\ Finish(th)
  /\ LET seen == inflight[th].seen
     IN IF entry = Unregistered THEN KeepStore
        ELSE IF inflight[th].ok THEN Store([entry EXCEPT !.failures = 0])
        ELSE IF Exhausts(seen)
          THEN Store([entry EXCEPT !.profile = NextProfile(seen.ladder, seen.profile),
                                   !.failures = 0])
        ELSE Store([entry EXCEPT !.failures = seen.failures + 1])

(***************************************************************************)
(* Token breaches                                                          *)
(***************************************************************************)
BreachRead(th) ==
  /\ Free(th)
  /\ entry # Unregistered
  /\ entry.profile # LastRung(entry.ladder)
  /\ Begin(th, [op |-> "breach", seen |-> entry])
  /\ KeepStore

BreachWrite(th) ==
  /\ inflight[th].op = "breach"
  /\ Finish(th)
  /\ LET seen == inflight[th].seen
     IN IF entry = Unregistered THEN KeepStore
        ELSE Store([entry EXCEPT !.profile = NextProfile(seen.ladder, seen.profile),
                                 !.failures = 0])

(***************************************************************************)
(* The operator                                                            *)
(***************************************************************************)
OverrideRead(th) ==
  /\ Free(th)
  /\ entry # Unregistered
  /\ \E i \in DOMAIN entry.ladder :
       Begin(th, [op |-> "override", profile |-> entry.ladder[i]])
  /\ KeepStore

OverrideWrite(th) ==
  /\ inflight[th].op = "override"
  /\ Finish(th)
  /\ IF entry = Unregistered THEN KeepStore
     ELSE Store([entry EXCEPT !.profile = inflight[th].profile, !.failures = 0])

(* A change of the risk tier changes the budget that goes with it.         *)
SetRisk(th) ==
  /\ Free(th)
  /\ entry # Unregistered
  /\ ~entry.own
  /\ \E b \in Budget : Store([entry EXCEPT !.budget = b])
  /\ Finish(th)

(***************************************************************************)
(* The other writes to the registry, and the database                      *)
(***************************************************************************)
(* A scan touches what is none of the ladder's, and stores all rows anew.  *)
ScanUnpersisted == UNCHANGED ladderVars

Scan ==
  /\ entry' = entry
  /\ Mirror(entry, refused)
  /\ UNCHANGED <<database, inflight, overlapped>>

(* Another agent steps onto a rung the CHECK refuses, or off it.           *)
Neighbour ==
  /\ "neighbour" \in Faults
  /\ refused' = ~refused
  /\ entry' = entry
  /\ Mirror(entry, ~refused)
  /\ UNCHANGED <<reachable, mirrored, inflight, overlapped>>

Outage ==
  /\ "database" \in Faults
  /\ reachable' = ~reachable
  /\ UNCHANGED <<entry, saved, mirrored, refused, inflight, overlapped>>

(* The process dies, and the next one loads what is stored.  If it cannot, *)
(* it starts empty, with a mirror or without one to its end.               *)
Restart ==
  /\ \/ reachable /\ mirrored' = TRUE /\ entry' = saved
     \/ ~reachable /\ mirrored' \in BOOLEAN /\ entry' = Unregistered
  /\ refused' = FALSE
  /\ inflight' = [th \in Pool |-> NoTask]
  /\ UNCHANGED <<saved, reachable, overlapped>>

Automatic(th) == SignalWrite(th) \/ BreachWrite(th)

LadderNext ==
  \/ \E th \in Pool :
       \/ RegisterAnew(th) \/ RemoveEntry(th)
       \/ \E ok \in BOOLEAN : SignalRead(th, ok)
       \/ BreachRead(th) \/ OverrideRead(th) \/ OverrideWrite(th) \/ SetRisk(th)
       \/ Automatic(th)
  \/ Scan \/ Neighbour \/ Outage \/ Restart

LadderSpec == LadderInit /\ [][LadderNext]_ladderVars

(***************************************************************************)
(* Handlers that have begun run to their end, the scanner's thread scans   *)
(* every few seconds, and an agent keeps working: it goes on reporting     *)
(* tasks that failed.                                                      *)
(***************************************************************************)
Running(th) == SignalRead(th, FALSE) \/ SignalWrite(th)

LadderFairness ==
  /\ \A th \in Pool : WF_ladderVars(SignalWrite(th) \/ BreachWrite(th) \/ OverrideWrite(th))
  /\ WF_ladderVars(\E th \in Pool : SignalRead(th, FALSE))
  /\ WF_ladderVars(Scan)

FairLadderSpec == LadderSpec /\ LadderFairness

(***************************************************************************)
(* Properties                                                              *)
(***************************************************************************)
(* The registry entry, its stored row, the snapshots handlers work from    *)
(* and the counters have their types.                                      *)
LadderTypeOK ==
  /\ entry \in Row
  /\ saved \in Row
  /\ reachable \in BOOLEAN /\ mirrored \in BOOLEAN /\ refused \in BOOLEAN
  /\ inflight \in [Pool -> LadderTask]
  /\ overlapped \in BOOLEAN

Raised ==
  /\ entry # Unregistered /\ entry' # Unregistered
  /\ Position(entry'.ladder, entry'.profile) < Position(entry.ladder, entry.profile)

(* A signal or a breach raises an agent only if, between its read and its  *)
(* write, someone else moved the agent or changed its ladder.              *)
RaisedOnlyByRace ==
  [][\A th \in Pool :
       Automatic(th) /\ Raised =>
         \/ inflight[th].seen.profile # entry.profile
         \/ inflight[th].seen.ladder # entry.ladder]_ladderVars

(* As long as handlers do not overlap, the profile is on the agent's own   *)
(* ladder, or the one every agent starts with: any other reads as full     *)
(* autonomy (policy._rung).                                                *)
RungOnOwnLadder ==
  ~overlapped /\ entry # Unregistered =>
    entry.profile = Full \/ PositionsOf(entry.ladder, entry.profile) # {}

(* Whatever writes were rolled back or made in memory only, a row does not *)
(* stay behind: once the database answers, the process mirrors and no      *)
(* value is refused, the row comes to stand where the agent stands, and    *)
(* stays with it (store._persist).                                         *)
RowCatchesUp ==
  <>[](mirrored /\ reachable /\ ~refused /\ Accepted(entry)) => <>[](saved = entry)

(* An agent of which nothing but failures is heard from some time on ends  *)
(* at the last rung of its ladder and stays there, however its reports     *)
(* overtake each other.                                                    *)
FailingAgentStops ==
  <>[][\E th \in Pool : Running(th)]_<<entry, inflight>> =>
    <>[](entry # Unregistered => entry.profile = LastRung(entry.ladder))

=============================================================================
