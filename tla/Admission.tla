------------------------------ MODULE Admission ------------------------------
(***************************************************************************)
(* The admission state of the radar's agent registry: quarantine status,   *)
(* the operator's approval gate on new write scopes, the three observed    *)
(* control hooks and the onboarding pipeline (radar/api.py, onboarding.py, *)
(* store.py, db.py).                                                       *)
(*                                                                         *)
(* The registry locks one get, patch or register at a time; no handler     *)
(* holds the lock from its read to its write.  A handler is therefore two  *)
(* actions: ...Read keeps a snapshot of the entry in inflight, ...Write    *)
(* computes from that snapshot and merges into whatever entry is there by  *)
(* then.  Plain `def` handlers run in the thread pool; `async def`         *)
(* handlers and the background tasks share the one thread Loop.            *)
(***************************************************************************)
EXTENDS Naturals, FiniteSets

CONSTANTS
  Agent,            (* agent ids                                            *)
  Scope,            (* write scopes                                         *)
  Thread,           (* threads that run handlers                            *)
  Loop,             (* the thread of the event loop                         *)
  Magazine,         (* write_scopes of each agent's awcp_magazine.json entry *)
  RequireObserved,  (* hooks with AGENT_RADAR_REQUIRE_OBSERVED_* = true     *)
  Declarations,     (* the sets of hooks a registration may declare         *)
  Temporal,         (* TRUE when onboarding runs as a Temporal workflow     *)
  Limit             (* bound on how often each event of Event happens       *)

Hook == {"telemetry", "policy", "flags"}
Event == {"register", "announce", "card", "remove", "restart", "lapse", "expire"}
Step == {"map", "check", "link"}
Request == [scopes : SUBSET Scope, declared : Declarations]

ASSUME LoopAssumption == Loop \in Thread
ASSUME MagazineAssumption == Magazine \in [Agent -> SUBSET Scope]
ASSUME HookAssumption ==
  /\ RequireObserved \subseteq Hook
  /\ Declarations \subseteq SUBSET Hook
ASSUME TemporalAssumption == Temporal \in BOOLEAN
ASSUME LimitAssumption == Limit \in [Event -> Nat]

Entry == [status     : {"quarantined", "active"},
          approval   : {"none", "pending", "approved"},
          scopes     : SUBSET Scope,    \* write_scopes
          approved   : SUBSET Scope,    \* approved_scopes, in memory only
          declared   : SUBSET Hook,
          proven     : SUBSET Hook,     \* *_enabled / *_observed
          fresh      : SUBSET RequireObserved,  \* last_*_ts within TELEMETRY_TTL
          onboarding : {"none", "pending", "running", "done"}]

NoEntry == [absent |-> TRUE]
Snapshot == Entry \cup {NoEntry}

Idle == [op |-> "idle"]

(* What a thread is doing between its read and the end of its handler.     *)
Task ==
  {Idle}
    \cup [op : {"check", "stale", "approve"}, agent : Agent, seen : Entry]
    \cup [op : {"observe"}, agent : Agent, seen : Entry, hook : Hook]
    \cup [op : {"register", "announce"}, agent : Agent, seen : Snapshot,
          request : Request]
    \cup [op : {"settle", "request"}, agent : Agent]

(* What the operator and the first registration allowed (history only).    *)
History == [first : SUBSET Scope, asked : SUBSET Scope, sanctioned : SUBSET Scope]

VARIABLES
  registry,    \* REGISTRY._entries
  inflight,    \* the handler each thread is in the middle of
  pipeline,    \* onboarding runs: <<agent, next step>>
  listed,      \* the manager's listing: entries it saw not onboarded
  starting,    \* agents whose starter has yet to patch onboarding "running"
  openTokens,  \* agents with a pending, unexpired scope_expansion token (DB)
  history,     \* per agent, what was granted and by whom
  spent        \* how often each bounded event has happened

vars == <<registry, inflight, pipeline, listed, starting, openTokens, history, spent>>

-----------------------------------------------------------------------------
Present(a) == registry[a] # NoEntry

(* Mutants of DecideStatus: the gate is not looked at; a third status.     *)
DecideStatusUngated(e) ==
  IF Hook \subseteq e.proven /\ {"policy", "flags"} \subseteq e.declared
  THEN "active" ELSE "quarantined"

DecideStatusPending(e) ==
  IF e.approval = "pending" THEN "pending" ELSE DecideStatusUngated(e)

(* onboarding.decide_status: the approval gate, then the three hooks; flags *)
(* and policy must be declared as well as proven.                           *)
DecideStatus(e) ==
  IF /\ e.approval # "pending"
     /\ Hook \subseteq e.proven
     /\ {"policy", "flags"} \subseteq e.declared
  THEN "active" ELSE "quarantined"

(* Registry.patch on agent a: merged into the current entry, or nothing.   *)
Patched(a, new) == IF Present(a) THEN [registry EXCEPT ![a] = new] ELSE registry

Begin(t, task) == inflight[t] = Idle /\ inflight' = [inflight EXCEPT ![t] = task]
Become(t, task) == inflight' = [inflight EXCEPT ![t] = task]
LoopFree == inflight[Loop] = Idle

Spend(event) ==
  /\ spent[event] < Limit[event]
  /\ spent' = [spent EXCEPT ![event] = @ + 1]

(* start_workflow, or the inline coroutine, for agent a.                   *)
StartRun(a) ==
  /\ pipeline' = pipeline \cup {<<a, "map">>}
  /\ starting' = IF Temporal THEN starting \cup {a} ELSE starting

Init ==
  /\ registry = [a \in Agent |-> NoEntry]
  /\ inflight = [t \in Thread |-> Idle]
  /\ pipeline = {}
  /\ listed = {}
  /\ starting = {}
  /\ openTokens = {}
  /\ history = [a \in Agent |-> [first |-> {}, asked |-> {}, sanctioned |-> {}]]
  /\ spent = [event \in Event |-> 0]

-----------------------------------------------------------------------------
(* POST /agents/register                                                   *)

RegisterRead(t, a, request) ==
  /\ Spend("register")
  /\ Begin(t, [op |-> "register", agent |-> a, seen |-> registry[a],
               request |-> request])
  /\ UNCHANGED <<registry, pipeline, listed, starting, openTokens, history>>

(* A hook the deployment does not require to be observed is trusted as     *)
(* declared; the others start unproven.                                    *)
FreshEntry(request, onboarding) ==
  [status |-> "quarantined", approval |-> "none",
   scopes |-> request.scopes, approved |-> {},
   declared |-> request.declared, proven |-> request.declared \ RequireObserved,
   fresh |-> {}, onboarding |-> onboarding]

AddedScopes(seen, request) == request.scopes \ (seen.scopes \cup seen.approved)

(* Mutant: a pending approval is not carried over.                         *)
ReRegisteredUngated(seen, request) ==
  [FreshEntry(request, "none") EXCEPT
     !.approval = IF AddedScopes(seen, request) # {} THEN "pending" ELSE "none",
     !.approved = seen.approved]

(* The whole entry is overwritten; the approval gate and the approved      *)
(* scopes are carried over from the snapshot, and scopes beyond both close *)
(* the gate.                                                               *)
ReRegistered(seen, request) ==
  [FreshEntry(request, "none") EXCEPT
     !.approval = IF AddedScopes(seen, request) # {} THEN "pending" ELSE seen.approval,
     !.approved = seen.approved]

RegisterWrite(t) ==
  LET task == inflight[t]
      a    == task.agent
      seen == task.seen
      request == task.request
      entry == IF seen = NoEntry THEN FreshEntry(request, "none")
                                 ELSE ReRegistered(seen, request)
  IN /\ task.op = "register"
     /\ registry' = [registry EXCEPT ![a] = entry]
     /\ history' = [history EXCEPT ![a] =
          IF seen = NoEntry
            THEN [first |-> request.scopes, asked |-> {}, sanctioned |-> {}]
          ELSE IF entry.approval = "pending" THEN [@ EXCEPT !.asked = request.scopes]
          ELSE @]
     /\ Become(t, IF seen # NoEntry /\ AddedScopes(seen, request) # {}
                    THEN [op |-> "request", agent |-> a] ELSE Idle)
     /\ UNCHANGED <<pipeline, listed, starting, openTokens, spent>>

(* db.record_approval_request, after the entry is in place: the token row  *)
(* has a foreign key to registry.agents.                                   *)
RecordRequest(t) ==
  /\ inflight[t].op = "request"
  /\ openTokens' = IF Present(inflight[t].agent)
                     THEN openTokens \cup {inflight[t].agent} ELSE openTokens
  /\ Become(t, Idle)
  /\ UNCHANGED <<registry, pipeline, listed, starting, history, spent>>

(* POST /agents/announce: a known agent has its hooks and onboarding reset *)
(* and nothing else; an unknown one is registered without a drift guard.   *)
AnnounceRead(a, request) ==
  /\ Spend("announce")
  /\ Begin(Loop, [op |-> "announce", agent |-> a, seen |-> registry[a],
                  request |-> request])
  /\ UNCHANGED <<registry, pipeline, listed, starting, openTokens, history>>

AnnounceWrite ==
  LET task == inflight[Loop]
      a    == task.agent
  IN /\ task.op = "announce"
     /\ IF task.seen = NoEntry
          THEN /\ registry' = [registry EXCEPT ![a] = FreshEntry(task.request, "pending")]
               /\ history' = [history EXCEPT ![a] =
                    [first |-> task.request.scopes, asked |-> {}, sanctioned |-> {}]]
          ELSE /\ registry' = Patched(a, [registry[a] EXCEPT !.proven = {},
                                                             !.onboarding = "none"])
               /\ UNCHANGED history
     /\ StartRun(a)
     /\ Become(Loop, Idle)
     /\ UNCHANGED <<listed, openTokens, spent>>

(* POST /agents/register-card: overwrites the entry, whatever it was, with *)
(* one that has no scopes and declares no hooks.                           *)
RegisterCard(a) ==
  /\ LoopFree
  /\ Spend("card")
  /\ registry' = [registry EXCEPT ![a] =
       [FreshEntry([scopes |-> {}, declared |-> {}], "pending") EXCEPT !.proven = {}]]
  /\ history' = [history EXCEPT ![a] = [first |-> {}, asked |-> {}, sanctioned |-> {}]]
  /\ StartRun(a)
  /\ UNCHANGED <<inflight, listed, openTokens>>

(* DELETE /agents/{id}: the row's tokens lose their agent_id (ON DELETE    *)
(* SET NULL), so no open token names the agent any more.                   *)
Deregister(t, a) ==
  /\ inflight[t] = Idle
  /\ Present(a)
  /\ Spend("remove")
  /\ registry' = [registry EXCEPT ![a] = NoEntry]
  /\ openTokens' = openTokens \ {a}
  /\ UNCHANGED <<inflight, pipeline, listed, starting, history>>

-----------------------------------------------------------------------------
(* The observed hooks: _observe_telemetry, _observe_policy, _observe_flags *)

ObserveRead(t, a, hook) ==
  /\ Present(a)
  /\ Begin(t, [op |-> "observe", agent |-> a, seen |-> registry[a], hook |-> hook])
  /\ UNCHANGED <<registry, pipeline, listed, starting, openTokens, history, spent>>

(* Mutant: the hook is recorded and admission is not decided again.        *)
ObserveWriteOnly(t) ==
  LET task == inflight[t]
      a    == task.agent
  IN /\ task.op = "observe"
     /\ registry' = Patched(a, [registry[a] EXCEPT
          !.proven = @ \cup {task.hook},
          !.fresh = @ \cup ({task.hook} \cap RequireObserved)])
     /\ Become(t, Idle)
     /\ UNCHANGED <<pipeline, listed, starting, openTokens, history, spent>>

(* Admission is decided again, on the snapshot, only if the snapshot was   *)
(* quarantined.                                                            *)
ObserveWrite(t) ==
  LET task == inflight[t]
      a    == task.agent
      now  == registry[a]
      probe == [task.seen EXCEPT !.proven = @ \cup {task.hook}]
  IN /\ task.op = "observe"
     /\ registry' = Patched(a,
          [now EXCEPT !.proven = @ \cup {task.hook},
                      !.fresh = @ \cup ({task.hook} \cap RequireObserved),
                      !.status = IF task.seen.status = "quarantined"
                                   THEN DecideStatus(probe) ELSE @])
     /\ Become(t, Idle)
     /\ UNCHANGED <<pipeline, listed, starting, openTokens, history, spent>>

(* A proven hook that must be observed has gone silent.                    *)
StaleHooks(e) == (e.proven \cap RequireObserved) \ e.fresh

(* _telemetry_reconciler, on the loop, one entry of its listing.           *)
ReconcileRead(a) ==
  /\ Present(a)
  /\ StaleHooks(registry[a]) # {}
  /\ Begin(Loop, [op |-> "stale", agent |-> a, seen |-> registry[a]])
  /\ UNCHANGED <<registry, pipeline, listed, starting, openTokens, history, spent>>

ReconcileWrite ==
  LET task == inflight[Loop]
      a    == task.agent
      stale == StaleHooks(task.seen)
      probe == [task.seen EXCEPT !.proven = @ \ stale]
  IN /\ task.op = "stale"
     /\ registry' = Patched(a, [registry[a] EXCEPT !.proven = @ \ stale,
                                                   !.status = DecideStatus(probe)])
     /\ Become(Loop, Idle)
     /\ UNCHANGED <<pipeline, listed, starting, openTokens, history, spent>>

(* TELEMETRY_TTL passes without an observation of the hook.                *)
Lapse(a, hook) ==
  /\ Present(a)
  /\ hook \in registry[a].fresh   \* no other hook's age is ever looked at
  /\ Spend("lapse")
  /\ registry' = [registry EXCEPT ![a].fresh = @ \ {hook}]
  /\ UNCHANGED <<inflight, pipeline, listed, starting, openTokens, history>>

-----------------------------------------------------------------------------
(* The operator's approval: _approve_agent, reached from both              *)
(* /agents/{id}/approve and /approvals/{id}/decide.                        *)

ApproveRead(t, a) ==
  /\ Present(a)
  /\ registry[a].approval = "pending"
  /\ Begin(t, [op |-> "approve", agent |-> a, seen |-> registry[a]])
  /\ UNCHANGED <<registry, pipeline, listed, starting, openTokens, history, spent>>

ApproveWrite(t) ==
  LET task == inflight[t]
      a    == task.agent
      probe == [task.seen EXCEPT !.approval = "approved"]
  IN /\ task.op = "approve"
     /\ registry' = Patched(a,
          [registry[a] EXCEPT !.approval = "approved",
                              !.status = DecideStatus(probe),
                              !.approved = task.seen.scopes \cup task.seen.approved])
     /\ history' = [history EXCEPT ![a].sanctioned = @ \cup history[a].asked]
     /\ Become(t, [op |-> "settle", agent |-> a])
     /\ UNCHANGED <<pipeline, listed, starting, openTokens, spent>>

(* db.decide_approval: every pending scope_expansion token of the agent.   *)
SettleTokens(t) ==
  /\ inflight[t].op = "settle"
  /\ openTokens' = openTokens \ {inflight[t].agent}
  /\ Become(t, Idle)
  /\ UNCHANGED <<registry, pipeline, listed, starting, history, spent>>

(* AGENT_RADAR_APPROVAL_TTL passes: the rows stay 'pending' but no longer  *)
(* count as open.                                                          *)
ExpireTokens(a) ==
  /\ a \in openTokens
  /\ Spend("expire")
  /\ openTokens' = openTokens \ {a}
  /\ UNCHANGED <<registry, inflight, pipeline, listed, starting, history>>

-----------------------------------------------------------------------------
(* Onboarding: _onboarding_manager, then map_identity, quarantine_check    *)
(* and link_mcp, inline or as Temporal activities on the same loop.        *)

(* The manager lists the entries once a round and works through the list,  *)
(* awaiting each run: an entry may have changed by the time it is started. *)
ManagerList ==
  /\ LoopFree
  /\ listed = {}
  /\ listed' = {a \in Agent : Present(a) /\ registry[a].onboarding = "none"}
  /\ listed' # {}
  /\ UNCHANGED <<registry, inflight, pipeline, starting, openTokens, history, spent>>

ManagerStart(a) ==
  /\ LoopFree
  /\ a \in listed
  /\ listed' = listed \ {a}
  /\ registry' = Patched(a, [registry[a] EXCEPT !.onboarding = "pending"])
  /\ IF Present(a) \/ Temporal THEN StartRun(a) ELSE UNCHANGED <<pipeline, starting>>
  /\ UNCHANGED <<inflight, openTokens, history, spent>>

(* The await on start_workflow returns and the starter patches the entry.  *)
MarkRunning(a) ==
  /\ LoopFree
  /\ a \in starting
  /\ starting' = starting \ {a}
  /\ registry' = Patched(a, [registry[a] EXCEPT !.onboarding = "running"])
  /\ UNCHANGED <<inflight, pipeline, listed, openTokens, history, spent>>

MoveOn(a, from, to) == pipeline' = (pipeline \ {<<a, from>>}) \cup {<<a, to>>}

(* map_identity_patch: the magazine's write_scopes replace the entry's.    *)
MapIdentity(a) ==
  /\ LoopFree
  /\ <<a, "map">> \in pipeline
  /\ registry' = Patched(a, [registry[a] EXCEPT !.scopes = Magazine[a]])
  /\ MoveOn(a, "map", "check")
  /\ UNCHANGED <<inflight, listed, starting, openTokens, history, spent>>

CheckRead(a) ==
  /\ <<a, "check">> \in pipeline
  /\ Present(a)
  /\ Begin(Loop, [op |-> "check", agent |-> a, seen |-> registry[a]])
  /\ UNCHANGED <<registry, pipeline, listed, starting, openTokens, history, spent>>

CheckWrite ==
  LET task == inflight[Loop]
      a    == task.agent
  IN /\ task.op = "check"
     /\ registry' = Patched(a, [registry[a] EXCEPT !.status = DecideStatus(task.seen)])
     /\ MoveOn(a, "check", "link")
     /\ Become(Loop, Idle)
     /\ UNCHANGED <<listed, starting, openTokens, history, spent>>

(* The entry is gone: the activity answers "missing" and the workflow goes *)
(* on; the inline coroutine raises and is over.                            *)
CheckMissing(a) ==
  /\ LoopFree
  /\ <<a, "check">> \in pipeline
  /\ ~Present(a)
  /\ IF Temporal THEN MoveOn(a, "check", "link")
                 ELSE pipeline' = pipeline \ {<<a, "check">>}
  /\ UNCHANGED <<registry, inflight, listed, starting, openTokens, history, spent>>

(* Mutant: the run ends without its last patch.                            *)
LinkUnmarked(a) ==
  /\ LoopFree
  /\ <<a, "link">> \in pipeline
  /\ pipeline' = pipeline \ {<<a, "link">>}
  /\ UNCHANGED <<registry, inflight, listed, starting, openTokens, history, spent>>

(* link_mcp is awaited; its patch (with admit's) marks the run done.       *)
Link(a) ==
  /\ LoopFree
  /\ <<a, "link">> \in pipeline
  /\ registry' = Patched(a, [registry[a] EXCEPT !.onboarding = "done"])
  /\ pipeline' = pipeline \ {<<a, "link">>}
  /\ UNCHANGED <<inflight, listed, starting, openTokens, history, spent>>

(* Mutant: the gate is closed again and the status is left alone.          *)
ReloadedActive(a) ==
  IF ~Present(a) THEN NoEntry
  ELSE [registry[a] EXCEPT
          !.approval = IF a \in openTokens THEN "pending" ELSE "none",
          !.approved = {}]

(* The radar dies and starts again: registry.agents has no approval        *)
(* columns, the lifespan closes the gate again from the open tokens, a     *)
(* Temporal run goes on in the new worker and an inline one is lost.       *)
Reloaded(a) ==
  IF ~Present(a) THEN NoEntry
  ELSE LET row == [registry[a] EXCEPT !.approval = "none", !.approved = {}]
       IN IF a \in openTokens
            THEN [row EXCEPT !.approval = "pending", !.status = "quarantined"]
            ELSE row

Restart ==
  /\ Spend("restart")
  /\ registry' = [a \in Agent |-> Reloaded(a)]
  /\ inflight' = [t \in Thread |-> Idle]
  /\ pipeline' = IF Temporal THEN pipeline ELSE {}
  /\ listed' = {}
  /\ starting' = {}
  /\ UNCHANGED <<openTokens, history>>

-----------------------------------------------------------------------------
ThreadStep(t) ==
  \/ \E a \in Agent, request \in Request : RegisterRead(t, a, request)
  \/ RegisterWrite(t)
  \/ RecordRequest(t)
  \/ \E a \in Agent : Deregister(t, a)
  \/ \E a \in Agent, hook \in Hook : ObserveRead(t, a, hook)
  \/ ObserveWrite(t)
  \/ \E a \in Agent : ApproveRead(t, a)
  \/ ApproveWrite(t)
  \/ SettleTokens(t)

LoopStep ==
  \/ \E a \in Agent, request \in Request : AnnounceRead(a, request)
  \/ AnnounceWrite
  \/ \E a \in Agent :
       \/ RegisterCard(a)
       \/ ReconcileRead(a)
       \/ ManagerStart(a)
       \/ MarkRunning(a)
       \/ MapIdentity(a)
       \/ CheckRead(a)
       \/ CheckMissing(a)
       \/ Link(a)
  \/ ManagerList
  \/ ReconcileWrite
  \/ CheckWrite

Environment ==
  \/ \E a \in Agent, hook \in Hook : Lapse(a, hook)
  \/ \E a \in Agent : ExpireTokens(a)
  \/ Restart

Next == (\E t \in Thread : ThreadStep(t)) \/ LoopStep \/ Environment

Spec == Init /\ [][Next]_vars

-----------------------------------------------------------------------------
(* The registry, the handlers in flight and the onboarding runs stay       *)
(* within the values the code can build (store.py, models.AgentEntry).     *)
TypeOK ==
  /\ registry \in [Agent -> Snapshot]
  /\ inflight \in [Thread -> Task]
  /\ pipeline \subseteq Agent \X Step
  /\ listed \subseteq Agent
  /\ starting \subseteq Agent
  /\ openTokens \subseteq Agent
  /\ history \in [Agent -> History]
  /\ spent \in [Event -> Nat]

Pending(a) == Present(a) /\ registry[a].approval = "pending"
Active(a) == Present(a) /\ registry[a].status = "active"

(* onboarding.decide_status: an agent that added write scopes "stays       *)
(* quarantined no matter how complete its hooks are, until an operator     *)
(* clears it".                                                             *)
GatedWhilePending == \A a \in Agent : ~(Pending(a) /\ Active(a))

(* The scopes an active agent may write are those of its first             *)
(* registration, those the operator was asked for and allowed, and those   *)
(* the magazine assigns: the scope-drift guard of POST /agents/register    *)
(* lets no other scope through to an admitted agent.  A restart forgets    *)
(* what is asked for, so this holds until the first one.                   *)
ActiveScopesGranted ==
  spent["restart"] = 0 => \A a \in Agent : Active(a) =>
    registry[a].scopes \subseteq
      history[a].first \cup history[a].sanctioned \cup Magazine[a]

(* A task that decides admission from a snapshot in which no approval is   *)
(* pending.                                                                *)
DecidesUngated(task, a) ==
  /\ task.op \in {"observe", "stale", "check"}
  /\ task.agent = a
  /\ task.seen.approval # "pending"

(* The one way to get an agent active behind a closed gate is a race: the  *)
(* step that does it is a handler that read the entry before the gate      *)
(* closed.  No single handler of api.py run by itself ever does it.        *)
GateOnlyLostToRace ==
  [][\A a \in Agent :
       (Pending(a) /\ Active(a))' =>
          \/ Pending(a) /\ Active(a)
          \/ \E t \in Thread : Pending(a) /\ DecidesUngated(inflight[t], a)]_vars

-----------------------------------------------------------------------------
(* Violated by the code: see README, "Findings".                           *)

(* api.register: the durable token "is what makes it survive a restart".   *)
PendingSurvivesRestart ==
  [][\A a \in Agent :
       Pending(a) /\ Present(a)' /\ spent'["restart"] # spent["restart"] => Pending(a)']_vars

-----------------------------------------------------------------------------
(* Fairness.  A handler that has read goes on to write.  The event loop    *)
(* runs its ready callbacks in order, so a coroutine that is ready again   *)
(* and again gets its turn: strong fairness on its steps.  An agent that   *)
(* works keeps exercising its hooks (heartbeats, gate calls and execution  *)
(* events).                                                                *)
Finish(t) ==
  \/ RegisterWrite(t) \/ RecordRequest(t) \/ ObserveWrite(t)
  \/ ApproveWrite(t) \/ SettleTokens(t)
FinishLoop == AnnounceWrite \/ ReconcileWrite \/ CheckWrite

LoopFairness ==
  /\ SF_vars(ManagerList)
  /\ \A a \in Agent :
       /\ SF_vars(ManagerStart(a)) /\ SF_vars(MarkRunning(a))
       /\ SF_vars(MapIdentity(a)) /\ SF_vars(CheckRead(a) \/ CheckMissing(a))
       /\ SF_vars(Link(a))

HandlerFairness ==
  /\ \A t \in Thread : WF_vars(Finish(t))
  /\ WF_vars(FinishLoop)

AgentsKeepWorking ==
  \A a \in Agent, hook \in Hook : SF_vars(\E t \in Thread : ObserveRead(t, a, hook))

LiveSpec == Spec /\ HandlerFairness /\ LoopFairness
WorkingSpec == LiveSpec /\ AgentsKeepWorking

Eligible(a) ==
  /\ Present(a)
  /\ registry[a].approval # "pending"
  /\ {"policy", "flags"} \subseteq registry[a].declared

(* Hooks close the loop: an agent with no pending approval that declares   *)
(* its callbacks and flags and keeps working is admitted again and again,  *)
(* whatever races its observations lose (_observe_*: "the agent leaves     *)
(* quarantine automatically").                                             *)
WorkingAgentsAdmitted ==
  \A a \in Agent : (<>[]Eligible(a)) => []<>Active(a)

(* An entry the radar holds is onboarded to the end, or removed            *)
(* (_onboarding_manager: "Trigger onboarding for any entry that hasn't     *)
(* been onboarded yet").                                                   *)
OnboardingCompletes ==
  \A a \in Agent : Present(a) ~> (~Present(a) \/ registry[a].onboarding = "done")
=============================================================================
