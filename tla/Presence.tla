------------------------------ MODULE Presence ------------------------------
(***************************************************************************)
(* Whether an agent that runs is on the radar, and one that does not run   *)
(* is not shown alive (awcp_kit.py: registration and heartbeat;            *)
(* radar/scanner.py; Registry in radar/store.py).                          *)
(*                                                                         *)
(* The agent registers when it starts, on a thread of its own, and then    *)
(* beats: a beat the radar does not answer, or answers with an error, is   *)
(* followed by another registration. Beside that the radar scans the       *)
(* processes it sees, outside its lock, and merges what it found later.    *)
(*                                                                         *)
(* A call that was given up may still be handled later.                    *)
(***************************************************************************)
EXTENDS BundleKits

CONSTANTS
  MaxStarts,        (* bound on starts of the agent                         *)
  MaxMishaps        (* bound on lost calls, failed scans, removals and      *)
                    (* crashes of the radar                                 *)

NoEntry == [kind |-> "none"]
NewEntry == [kind |-> "self", alive |-> TRUE, recent |-> TRUE, pid |-> 0]

VARIABLES
  bundle,           (* whose kit the agent runs                             *)
  durableRegistry,  (* the registry is stored in Postgres                   *)
  urlSeen,          (* a scan tells the endpoint of the process             *)
  pid,              (* the process of the agent, 0 for none                 *)
  starts,           (* processes so far                                     *)
  beat,             (* what the heartbeat waits for                         *)
  inflight,         (* calls on their way to the radar                      *)
  radarUp,
  entry,            (* the agent's own row                                  *)
  scanned,          (* the row of each process, made by a scan              *)
  found,            (* what the scanner has detected and not merged yet     *)
  mishaps           (* mishaps so far                                       *)
presenceVars == <<bundle, durableRegistry, urlSeen, pid, starts, beat, inflight, radarUp,
                  entry, scanned, found, mishaps>>
kitSide == <<bundle, durableRegistry, urlSeen, pid, starts>>

NotScanning == [stage |-> "sleep", pids |-> {}]
NoRows == [p \in 1..MaxStarts |-> "none"]

PresenceInit ==
  /\ bundle \in Kit
  /\ durableRegistry \in BOOLEAN /\ urlSeen \in BOOLEAN
  /\ pid = 0 /\ starts = 0
  /\ beat = "sleep" /\ inflight = {}
  /\ radarUp = TRUE
  /\ entry = NoEntry /\ scanned = NoRows /\ found = NotScanning
  /\ mishaps = 0

Mishap == mishaps < MaxMishaps /\ mishaps' = mishaps + 1

-----------------------------------------------------------------------------
(* The agent: mount, _radar_register, _radar_heartbeat, _radar_call.       *)

(* A call reaches the radar or finds nobody there.                         *)
Post(call) == IF radarUp THEN inflight \cup {call} ELSE inflight

Mount ==
  /\ pid = 0 /\ starts < MaxStarts
  /\ starts' = starts + 1 /\ pid' = starts + 1
  /\ inflight' = Post("register")
  /\ UNCHANGED <<bundle, durableRegistry, urlSeen, beat, radarUp, entry, scanned, found, mishaps>>

Die ==
  /\ pid # 0
  /\ pid' = 0 /\ beat' = "sleep"
  /\ UNCHANGED <<bundle, durableRegistry, urlSeen, starts, inflight, radarUp, entry, scanned,
                 found, mishaps>>

SendHeartbeat ==
  /\ pid # 0 /\ Beats(bundle) /\ beat = "sleep"
  /\ inflight' = Post("signal")
  /\ beat' = IF radarUp THEN "signal" ELSE "empty"
  /\ UNCHANGED <<kitSide, radarUp, entry, scanned, found, mishaps>>

(* Mutant: a beat that is not answered is forgotten.                       *)
ShrugOff ==
  /\ beat = "empty"
  /\ beat' = "sleep"
  /\ UNCHANGED <<inflight, kitSide, radarUp, entry, scanned, found, mishaps>>

(* No answer, or an error: register again, and wait for that.              *)
RegisterAgain ==
  /\ beat = "empty"
  /\ inflight' = Post("register")
  /\ beat' = IF radarUp THEN "register" ELSE "sleep"
  /\ UNCHANGED <<kitSide, radarUp, entry, scanned, found, mishaps>>

(* The timeout of a call that may still be handled.                        *)
GiveUpCall ==
  /\ beat \in {"signal", "register"}
  /\ Mishap
  /\ beat' = IF beat = "signal" THEN "empty" ELSE "sleep"
  /\ UNCHANGED <<inflight, kitSide, radarUp, entry, scanned, found>>

-----------------------------------------------------------------------------
(* The radar: register and signal, its restart, an operator's removal.     *)

HandleRegister ==
  /\ radarUp /\ "register" \in inflight
  /\ inflight' = inflight \ {"register"}
  /\ entry' = NewEntry
  /\ beat' = IF beat = "register" THEN "sleep" ELSE beat
  /\ UNCHANGED <<kitSide, radarUp, scanned, found, mishaps>>

(* A signal is observed telemetry: the agent is alive.                     *)
HandleSignal ==
  /\ radarUp /\ "signal" \in inflight
  /\ inflight' = inflight \ {"signal"}
  /\ entry' = IF entry = NoEntry THEN NoEntry ELSE [entry EXCEPT !.alive = TRUE, !.recent = TRUE]
  /\ beat' = IF beat # "signal" THEN beat ELSE IF entry = NoEntry THEN "empty" ELSE "sleep"
  /\ UNCHANGED <<kitSide, radarUp, scanned, found, mishaps>>

CrashRadar ==
  /\ radarUp /\ Mishap
  /\ radarUp' = FALSE
  /\ inflight' = {}
  /\ beat' = IF beat = "signal" THEN "empty" ELSE IF beat = "register" THEN "sleep" ELSE beat
  /\ found' = NotScanning
  /\ UNCHANGED <<kitSide, entry, scanned>>

(* Only self-registered rows are loaded.                                   *)
StartRadar ==
  /\ ~radarUp /\ radarUp' = TRUE
  /\ entry' = IF durableRegistry THEN entry ELSE NoEntry
  /\ scanned' = NoRows
  /\ UNCHANGED <<kitSide, beat, inflight, found, mishaps>>

ForgetRow ==
  /\ radarUp /\ Mishap
  /\ \/ entry' = NoEntry /\ UNCHANGED scanned
     \/ \E p \in 1..starts : scanned' = [scanned EXCEPT ![p] = "none"] /\ UNCHANGED entry
  /\ UNCHANGED <<kitSide, beat, inflight, radarUp, found>>

(* PRUNE_AFTER_SEC passes.                                                 *)
GrowOld ==
  /\ entry # NoEntry /\ entry.recent
  /\ entry' = [entry EXCEPT !.recent = FALSE]
  /\ UNCHANGED <<kitSide, beat, inflight, radarUp, scanned, found, mishaps>>

-----------------------------------------------------------------------------
(* The scanner: scan_all_safe, then reconcile_scan under the lock. A scan  *)
(* that times out has found nothing.                                       *)

ScanAllSafe(fails) ==
  /\ radarUp /\ found.stage = "sleep"
  /\ IF fails THEN Mishap ELSE UNCHANGED mishaps
  /\ found' = [stage |-> "found", pids |-> IF fails \/ pid = 0 THEN {} ELSE {pid}]
  /\ UNCHANGED <<kitSide, beat, inflight, radarUp, entry, scanned>>

(* The row a detected process is folded into is the agent's own.           *)
Folds(p) == entry # NoEntry /\ (entry.pid = p \/ urlSeen)

Reconcile ==
  LET folded == {p \in found.pids : Folds(p)}
  IN /\ found.stage = "found"
     /\ scanned' = [p \in 1..MaxStarts |->
          IF p \in folded THEN "none"
          ELSE IF p \in found.pids THEN "alive"
          ELSE IF scanned[p] = "alive" THEN "dead" ELSE scanned[p]]
     /\ entry' = IF folded # {}
          THEN [entry EXCEPT !.alive = TRUE, !.recent = TRUE,
                             !.pid = IF @ = 0 THEN CHOOSE p \in folded : TRUE ELSE @]
          ELSE IF entry # NoEntry /\ ~entry.recent THEN [entry EXCEPT !.alive = FALSE] ELSE entry
     /\ found' = NotScanning
     /\ UNCHANGED <<kitSide, beat, inflight, radarUp, mishaps>>

-----------------------------------------------------------------------------
PresenceNext ==
  \/ Mount \/ Die \/ SendHeartbeat \/ RegisterAgain \/ GiveUpCall
  \/ HandleRegister \/ HandleSignal \/ CrashRadar \/ StartRadar \/ ForgetRow \/ GrowOld
  \/ \E fails \in BOOLEAN : ScanAllSafe(fails)
  \/ Reconcile

(* The loops of the agent and of the scanner run on, the radar is started  *)
(* again and handles its calls, and time passes; agents start and stop as  *)
(* they like.                                                              *)
PresenceSteps ==
  {"SendHeartbeat", "RegisterAgain", "HandleRegister", "HandleSignal", "StartRadar",
   "GrowOld", "ScanAllSafe", "Reconcile"}
PresenceStep(step) ==
  \/ step = "SendHeartbeat"  /\ SendHeartbeat
  \/ step = "RegisterAgain"  /\ RegisterAgain
  \/ step = "HandleRegister" /\ HandleRegister
  \/ step = "HandleSignal"   /\ HandleSignal
  \/ step = "StartRadar"     /\ StartRadar
  \/ step = "GrowOld"        /\ GrowOld
  \/ step = "ScanAllSafe"    /\ ScanAllSafe(FALSE)
  \/ step = "Reconcile"      /\ Reconcile
PresenceFairness == \A step \in PresenceSteps : WF_presenceVars(PresenceStep(step))

PresenceSpec == PresenceInit /\ [][PresenceNext]_presenceVars /\ PresenceFairness

-----------------------------------------------------------------------------
OnRadar == entry # NoEntry /\ entry.alive
ShownAlive == OnRadar \/ \E p \in 1..MaxStarts : scanned[p] = "alive"
ShownTwice == OnRadar /\ pid # 0 /\ scanned[pid] = "alive"

(* An agent that goes on running and beats is on the radar again and       *)
(* again, whoever removed it and whatever was lost or forgotten; one that  *)
(* has stopped for good ends up shown as stopped, whatever calls and scans *)
(* of it were still under way; and one whose endpoint a scan can tell does *)
(* not stay listed twice (_radar_heartbeat, reconcile_scan).               *)
PresenceTracksProcess ==
  /\ <>[](pid # 0 /\ Beats(bundle)) => []<>OnRadar
  /\ <>[](pid = 0) => <>[]~ShownAlive
  /\ <>[](urlSeen /\ pid # 0 /\ entry # NoEntry) => []<>~ShownTwice
=============================================================================
