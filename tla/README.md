# The AWCP control plane in TLA+

The repository holds a control plane for AI agents ("AWCP"), the agents it
governs and a pipeline that patches governance hooks into agent sources. This
directory models the parts whose correctness depends on order, on failure or on
two things happening at once, checks them with TLC and proves the central facts
with TLAPS.

Paths below are relative to `src/awcp-mcp-temp-main/src/awcp/` unless they start
with `src/`.

## The system

| Part | State | Operations | What is hard |
|---|---|---|---|
| registry and onboarding (`radar/store.py`, `radar/onboarding.py`, `radar/api.py`, `radar/temporal/`) | one entry per agent: status, approval gate, scopes, hooks, onboarding state; the rows of `registry.agents`; approval tokens | register, announce, card, approve, observe, reconcile, onboard, deregister, restart | every handler reads an entry, decides, and patches later; approval state lives in memory and half of it in the database; onboarding spans awaits and restarts |
| degradation ladder (`radar/policy.py`, signal endpoint) | autonomy profile and failure count of an entry | signal, token breach, operator override, re-register | signals run in a thread pool on snapshots; an operator's decision competes with automatic steps; a heartbeat is a success signal |
| write gate (`radar/api.py` gate, `radar/opa.py`, `radar/db.py` tokens) | operator tokens: status, uses, expiry | gate, decide, verify and consume | two gate calls with one token; consume racing decide and expiry |
| hard stop (`radar/api.py` token stop, freeze journal) | stopped processes, remote stops, journal rows | breach, reconcile, resume, recover, shutdown | the journal is written after the signal; a crash in between; resume that fails; shared pids |
| token ledger and gateway (`laminar/`, `radar/llm_gateway.py`) | events in a window, in-flight reservations, last state per agent | pre_check, record, release, reset | calls in flight checked against one window; transitions evaluated outside the lock; a leaked reservation |
| evidence and context graph (`context_graph/`) | a hash chain per run; context nodes with freshness | record, verify, upsert, working set | two writers append to one chain; resume from a stale node |
| operator policy (`radar/operator_policy.py`) | cached policy, versions in the database | save, reload | load and install are two steps |
| execution (`radar/api.py` execution, `radar/temporal/workflows/execution.py`) | running workflows, queued events | start, event, complete | completion racing a block; drained events |
| agent hooks (`agent_hooks/`) | lists of hooks per type, one policy guard | register, remove, switch, dispatch | the guard is swapped while calls are being judged; a list looks empty while it is sorted |
| agent kit (`src/awcp-mcp-temp-agents/*/awcp_kit.py`, six copies) | queued tasks, approval events, token counts, discovered tools | submit, cancel, approve, work, register, heartbeat, call a tool | worker, request thread and heartbeat share unlocked dictionaries; every call to the radar may be lost or given up; the copies differ |
| presence (`radar/scanner.py`, the merge in `radar/store.py`) | rows an agent registered, rows a scan made | scan, merge, prune, heartbeat, re-register | scans are taken outside the lock and may fail; the agent and the scanner name the same process differently |
| instrumentation (`src/instrumentation_patches/`) | a source being edited, a report | scan, detect, generate, apply, write, validate | lines move with every insertion; a half-applied proposal; the file is written before it is run |
| MCP server (`mcp/`, `runtime/tool_runtime.py`) | the map of risks it was deployed with | list tools, execute a tool through the gate | an agent calls by the risk it discovered, perhaps of an earlier deployment |
| code sandbox (`runtime/sandbox.py`) | one container | run, close at shutdown | nothing runs beside it: its calls come one by one |
| OPA agent (`opa_agent/`) | tool risk tiers from a small model, a threshold, a cached copy of the operator policy | decide, move the threshold | the cached policy is stamped fresh when it was loaded earlier |
| user gateway (`gateway/`), control panel of the bundles | none of their own: they look at processes | start an agent, submit, status, approve, stop | stop against completion; a blocked answer must not be shown; two programs start the same agent |

The parts meet in the registry entry: the gate reads status and profile that
onboarding, signals, token breaches and operators write; the hard stop and the
ledger act on the same agent from different threads; the kit's heartbeat,
gate call and task worker are the clients of all of it.

### What makes each part correct

| Part | Correct when |
|---|---|
| registry and onboarding | an agent waiting for an operator is not active; an active agent has no scope nobody granted; a waiting agent waits on after a restart; a working agent is admitted; every entry is onboarded to the end |
| degradation ladder | automation never gives autonomy back; a failing agent reaches its hard stop; the rung is one of the agent's own ladder, and its row catches up with it; both policy engines answer alike |
| write gate | a write of a token-gated tier uses up an approval of its scope, and one approval covers one write |
| hard stop | whatever was stopped is known, is in the journal, and is released once nobody wants it stopped |
| token ledger and gateway | what passed the check does not exhaust the budget; a call's reservation stays until the call is metered and not longer; exhaustion is reported |
| evidence | the rows of a run form one chain, whatever writes fail |
| context graph | what a recovering workflow is given starts with its newest fresh step, holds nothing stale and fits its budget |
| operator policy, OPA agent | what is in force becomes the newest version saved; a skill an agent claims never loosens a decision; a tool has one tier |
| execution | a task ends and so does its workflow; an outcome once told stays; a blocked answer is not shown |
| agent hooks | a call is judged by the guard in force at some moment of it |
| agent kit | one approval releases one write; what the model used is counted once |
| presence | an agent that runs is on the radar, one that has stopped is shown as stopped |
| MCP server | what runs as a write was put before an operator and is a declared scope |
| starting agents | a task that was found stays found while its process lives |
| instrumentation | a proposal is applied whole or not at all; every gap is accounted for; a verdict is about the text on the disk; one bad file does not end the run |

## Modules

| Module | What it is | Builds on |
|---|---|---|
| `Admission` | registry entries from registration to admission | |
| `Policy` | the pure decisions: ladder positions, step down, gate decision in Python and in Rego | |
| `DegradationLadder` | how one agent's autonomy moves | `Policy` |
| `Authorization` | what an approval token promises (abstract) | |
| `GateTokens` | gate calls and the token table; implements `Authorization` | `Policy`, `Authorization` |
| `HardStop` | stop and release of agents over budget, and the freeze journal | |
| `LlmBudget` | model calls, their reservations, metering and the breach of a budget | |
| `HookCatalog` | hook categories and types, detection rules, capabilities, risk order | |
| `PatchSource` | a Python source as lines, where a change goes, imports, what a run of it can end with | `HookCatalog` |
| `Instrumentation` | the pipeline over the files of a repository | `PatchSource` |
| `BundleKits` | how the six copies of `awcp_kit.py` differ | |
| `ExecutionTracking` | start, event and completion of a task at the radar; its workflow in Temporal | |
| `GovernedTask` | a task from prompt to answer: worker, operators, user, gateway | `ExecutionTracking`, `BundleKits` |
| `GuardHooks` | the hooks of a gate, swapped while it is evaluated | |
| `OperatorPolicy` | the operator's document: matching, decisions, saving, the radar's cache | |
| `ToolTiers` | tier of a tool, the OPA agent's caches and decision, the radar's word on it | `OperatorPolicy` |
| `EvidenceChain` | ledger, ring, readers and verification | |
| `WorkingSet` | staleness, order and seating of the steps a recovering workflow gets | `EvidenceChain` |
| `Presence` | registration, heartbeat, scan and merge | `BundleKits` |
| `KitTokens` | who counts the tokens of a model call | `BundleKits` |
| `ToolServer` | discovery and execution of tools between a kit and the MCP server | `BundleKits` |
| `Launcher` | processes of an agent, as gateway and control panel start and find them | |
| `*Proofs` | the theorems about a module | the module, `TLAPS` |
| `MC_*`, `*.cfg` | the instances TLC checks | the module |
| `MC_Enrolment`, `MC_Gateways`, `MC_Autonomy`, `MC_ToolPlane` | the instances that hold several parts | the parts |

A run checks parts that belong to one question and share no variable together:
`MC_Enrolment` how an agent comes under governance (`Admission`, `Instrumentation`),
`MC_Gateways` the two gates its work passes (`GateTokens`, `LlmBudget`), `MC_Autonomy`
what takes its autonomy away (`DegradationLadder`, `HardStop`), `MC_ToolPlane` what surrounds a tool
call. Such a module adds a variable `focus`: a behaviour chooses a part at its start, moves it alone and
leaves the others where they begin, so that the instance is the disjoint union of the parts'
instances. Fairness of a part is owed when it is the one that moves.

A handler of the radar reads an entry, decides, and patches it later; the
registry's lock covers each call alone (`radar/store.py`). In every module a
handler is therefore as many actions as it has such calls, and a variable
(`inflight`, `task`) keeps what it holds in between. `def` endpoints run in a
thread pool, `async def` endpoints and background tasks on the event loop. Where a
property fails to races, a configuration with one thread, or the history variable
`overlapped`, shows that it depends on nothing else.

### Admission

`registry` is `REGISTRY._entries` with the fields admission depends on,
`openTokens` the pending scope-expansion rows of `governance.approval_tokens`,
`listed`, `starting` and `pipeline` the onboarding manager between two awaits.
`history` is a history variable: what the first registration held, what the
operator was asked for and what the operator allowed.

| Action | Code |
|---|---|
| `RegisterRead`, `RegisterWrite`, `RecordRequest` | `POST /agents/register`: carry-forward of the previous entry, scope-drift guard, then the token row in a transaction of its own |
| `AnnounceRead`, `AnnounceWrite`, `RegisterCard` | the announcing and the card form of registration |
| `ObserveRead`, `ObserveWrite` | `_observe_telemetry`, `_observe_policy`, `_observe_flags` |
| `ReconcileRead`, `ReconcileWrite`, `Lapse` | `_reconcile_once`, an observation older than its time to live |
| `ApproveRead`, `ApproveWrite`, `SettleTokens`, `ExpireTokens` | operator approval of an agent; expiry of its tokens |
| `ManagerList`, `ManagerStart`, `MarkRunning`, `MapIdentity`, `CheckRead`, `CheckWrite`, `CheckMissing`, `Link` | the onboarding manager and the pipeline, inline or as a Temporal workflow |
| `Deregister`, `Restart` | removal; a crash and what the lifespan restores |

Simplifications: the reconciler lists one entry at a time; two onboarding runs of
one agent at one step are one; starting a run and patching "pending" are one
step; the fallback from a failing Temporal start to an inline run is the inline
configuration. `link_mcp` and `fetch_card` do not reach the admission state.

| Run | Instance | Shows |
|---|---|---|
| `admission_serial` | one agent, two scopes, one of them the magazine's; one thread; Temporal; 2 registrations and one each of announcement, removal, restart, and a card or an expiry of tokens | `ActiveScopesGranted` on every sequence of handlers up to a restart (three agent registrations or announcements are what it takes to widen, be approved and come back); `GatedWhilePending` through a restart; `TypeOK` |
| `enrolment`, focus `entry` | one agent, one scope; two threads; 2 registrations and one each of removal and expiry | `GateOnlyLostToRace`: a waiting agent does become active here, by a write whose snapshot the other thread's registration overtook, and in no other way |
| `admission_live` | two threads; 1 registration, removal, lapse | `WorkingAgentsAdmitted`, `OnboardingCompletes` |
| `admission_crash` | one thread, 2 registrations, 1 restart | violates `PendingSurvivesRestart` |
| `admission_cut` | one thread, onboarding inline, 1 registration, 1 restart | violates `OnboardingCompletes` |

One agent is enough: no action of the module reads one entry to change another.
The limits end every behaviour, so deadlock is not checked. Fairness of
`admission_live` and `admission_cut`: a handler that has read goes on (weak); the event loop runs
ready callbacks in the order they become ready, so a coroutine that is ready
again and again gets its turn (strong); an agent that works keeps exercising
its hooks. Nothing is assumed about restarts, lapses or registrations.

### Policy and DegradationLadder

`Policy` counts positions from 1. `PolicyDecision` is `policy.evaluate_action`
as its sequence of early returns; `RegoDecision` is `gate.rego` as its
else-chain, with the evaluation conflict a repeated rung causes.

`DegradationLadder` follows one agent: `entry` in memory, `saved` its row,
`overlapped` a history variable that says whether two handlers were ever under way together.
`RegisterAnew`, `RemoveEntry`, `SignalRead/Write`, `BreachRead/Write`,
`OverrideRead/Write`, `SetRisk`, `Scan` and `Restart` are the endpoints, callbacks and
the scanner's loop. Every write ends in one transaction over the rows of all agents
(`Mirror`): nothing is stored when the database does not answer (`reachable`), when the process
started without it (`mirrored`), when the `CHECK` of `registry.agents` refuses this agent's
rung (`Storable`), or when it refuses another agent's (`refused`); the failure is
logged, and the next write, a scan's at the latest, tries all rows again. `Faults` says which of
these an instance has: `Outage` lets the database come and go, `Neighbour` another agent step
onto a refused rung and off it. A `Restart` loads the row; without a database it starts
empty. A failure at the hard stop still counts up without bound in the code; `Bound`
stops it there and nowhere else.

| Run | Instance | Shows |
|---|---|---|
| `autonomy`, focus `threads` | two threads, the default ladder without two of its write-capable rungs, a three-rung ladder, heartbeats among the signals; no faults of the database | `RaisedOnlyByRace`, `RungOnOwnLadder` (until two handlers overlap), `FailingAgentStops` for an agent that only fails; `LadderTypeOK` |
| `autonomy`, focus `rows` | one thread, a ladder with a rung the table refuses, a neighbour on such a rung, a database that comes and goes, with and without a mirror | `RowCatchesUp`: the row follows the agent again once nothing stands in its way |

Budgets of 1 and 2 and ladders of three and four rungs reach every case of
`apply_signal`: the first failure, the one that exhausts, the last rung, and a
change of ladder in between. Fairness: a handler that has begun ends, the agent keeps
reporting, and the scanner's thread scans; nothing else.

### GateTokens and Authorization

A gate call is a thread that goes through `read`, `consume` or `issue`,
`guard`, `allowed`, one action per SQL statement; `tokens` is the table,
`writes` a history variable. `Usable` is the `WHERE` clause of the one `UPDATE`
that claims a token. The token budget, the guard hooks and the operator policy
are each a possible denial. Every token is issued for one use, so uses are not
counted. A token keeps the class it was approved for, which no statement of the code compares
and `WriteOfApprovedClass` looks at. Its branch is left out: no statement reads it.

`Authorization` says where a token stands for the operator who granted it:
asked, granted or refused, claimed once, and then performed or wasted, or
lapsed. `Approval(k)` is the refinement mapping and `AuthorizesOnce` the
abstract specification, a property of `gateways`.

| Run | Instance | Shows |
|---|---|---|
| `gateways`, focus `write` | two agents, two calls in flight, one token; a wide and a narrow entry; writes with and without a scope and of an operator's class | `RiskyWriteSpendsToken`: a write of a token-gated tier has used up a token with its scope; `AuthorizesOnce`, `TypeOK` |
| `gate_class` | `GateTokens` alone, with one call at a time | violates `WriteOfApprovedClass` |

One token is what both calls contend for; rows do not influence each other, so a
second one adds no behaviour to the first, and the theorems hold for any number.

### HardStop

Layer 3 of the token budget. `stopped` is the world: the processes under
SIGSTOP and the endpoints that follow a suspend directive. `tracked` stands for
`_token_suspended` and `_token_remote_stopped`, `mirror` for `_freeze_journal`,
`rows` for `registry.freeze_journal`. The reconciler is one thread, its pass a
sequence of visits in any order; removals run in the pool; shutdown releases
everything on the main thread, while a pass whose task was cancelled goes on.

| Action | Code |
|---|---|
| `StopDecide`, `Freeze`, `Suspend`, `Note` | `_token_enforce_stop`: entry and shared-process check, then SIGSTOP under the lock, or the POST and the note of it |
| `JournalMirror`, `JournalRow` | `_journal_set`, `record_freeze` (one row per agent; failures are only logged) |
| `ReleaseRecovered`, `Deregister`, `ReleaseClosing` | the three callers of `_token_enforce_resume` |
| `Continue`, `Forget`, `JournalUnmirror`, `JournalUnrow`, `Remove` | resume, forget, `_journal_clear`, removal |
| `Shutdown`, `Exit`, `Crash`, `Start` | lifespan; `_recover_orphaned_freezes` |
| `Register`, `ScanFolds`, `Meter` | what the registry and the ledger say |

Three kinds of fault make the bookkeeping lose a stop, and the history
variables name exactly those: `lost` (the radar no longer knows: an unanswered
directive, a newer stop forgotten by a slower release, an entry recovery failed
on) and `unrecorded` (the journal does not hold it: a refused row, a crash
before the row, a row that another stop or release of the agent replaced).
`StopsTracked` and `StopsJournaled` say that nothing else does.
`RecoveredReleased` says that a stop ends once its agent is gone or within
budget; it assumes that a thread in the middle of something goes on and that
each pass visits everything tracked (strong fairness on the visit), which
`_token_reconcile_once` does.

`autonomy`, with focus `stop`, has two agents that share a process, one of which may register
with an endpoint instead, one removing thread, 2 registrations, 3 changes of
the meter, 1 removal and 1 start. Two registrations give sharing or a
re-registration with another target; three changes give a stop, a release and
a second stop, which is what an overtaken release needs. Left out: the death of
a stopped process and reuse of its pid; `_token_uncontrolled`, which only keeps
an event from repeating.

### LlmBudget

One agent, its gateway calls (`Gateway`), execution events (`Reporter`) and tool
calls recorded from the pool (`Recorder`). `window` is the sum `window_usage`
returns, `inflight` and `last` the dictionaries of that name, `est`, `seen` and
`level` what a handler holds. Gateway calls and events are coroutines: `loop` is
the one that runs until it awaits, and the pool's threads run in between. Three
history variables state the bound: `cap` (100 times what exhausts the largest
budget yet), `unchecked` (tokens recorded that no reservation covered: reports,
calls without an estimate, use above the estimate) and `breaches`.

| Action | Code |
|---|---|
| `Arrive`, `Wall` | `proxy`: the hard wall (`is_exhausted`) |
| `EstimateRequest`, `PreCheck` | `estimate_request`, `pre_check`; what cannot be estimated is not checked |
| `UpstreamFails` | the 502 of the buffered and of the streamed path; also a client that goes away before the stream is drained |
| `Answered`, `WindowUsage`, `Judge`, `Swap`, `OnBreach`, `ReleaseInflight` | `record_usage` with `_handle_transition`, then `release_inflight` |
| `Report` | `on_execution_event`, `POST /laminar/record` |
| `Age` | records leave the window: by age, or when the ring is full |
| `SetBudget`, `ResetWindow`, `ResetState` | operator endpoints |
| `RestartLedger` | `_load_from_disk`: any part of the window may be there |

| Run | Instance | Shows |
|---|---|---|
| `gateways`, focus `model` | two calls in flight (three in all), an event or a tool call, one disturbance: ageing, a new budget, a reset or a restart; budgets of 2 and 3, estimates and usage up to 2 | `SpendBounded`, `ReservationsKept`, `ExhaustionReported` |
| `budget_reservation` | `LlmBudget` alone, one call | violates `ReservationsReturned` |

Two calls in flight are what it takes to pass one window twice, the third to find
what an earlier one left; with a budget of 2 the third token exhausts, so every level
is reached from every other. Estimates below and above the usage and none at all are
included. Left out: the warn ratio operators may move (it does not bear on the
properties), costs and lifetime totals, and the path on which `pre_check` raises,
which lets the call through without reserving and later releases its estimate.
One behaviour is in the model and no property speaks about it: an older, lower
evaluation may be stored last, so that one crossing is reported twice, and a second
crossing after the window has aged with nothing recorded in between is not
reported at all, although `laminar/bridge.py:421` says "act ONCE per crossing".

### HookCatalog, PatchSource, Instrumentation

One run of `run_instrumentation` after another over a repository of three files.
`HookCatalog` is the engine's tables: sixteen hook categories, the rule that detects each,
the capabilities that require it, its urgency. `PatchSource` keeps of a source what the
applier asks of its syntax tree: one record per line, with its kind, the name and hook type
in it, and the variable a hook needs. `Resolve` places a change, `InjectImports` adds what
is missing, `Outcomes` says how a run of the source can end: its result, and whether an import
error is mentioned on its standard error, which is all the sandbox looks at
(`ImportErrorOnly`). The line that fails may come after a line that has printed an import
error it caught.

| Action | Code |
|---|---|
| `Scan`, `NextFile`, `PipelineError` | `run_instrumentation`: the scan, the loop over agents, its `except` |
| `Analyze` | capabilities, detection, gap report |
| `GenerateBatch`, `GenerateForGap` | one prompt for all gaps; on failure or a wrong hook type one prompt each; the built-in template when the provider fails |
| `ApplyChange`, `ProposalApplied`, `ApplyImports` | `PatchApplier.apply`: a proposal of several changes, rolled back when one cannot be placed |
| `Redetect`, `WriteBack`, `ValidateAndReport` | stages 6.5 to 7: detection anew, the file replaced, the sandbox and the verdict |
| `Rerun` | the pipeline is started again on what it wrote |

What the model answers is one of eleven replies: right, doubled, the category's name in place
of the type, another type, not Python, at top level, a local variable, a change that has to
be placed at a handler, empty, and two with other imports than those of the hook manager: none,
or a module nobody has. Imports put in are those of the reply. A file that cannot be written is
left as it was or torn, since opening it has truncated it (`Torn`). `enrolment`, with focus `source`, runs every order of these on two kinds
of repository (a function with a main line, a script without functions, each beside a file
that does not parse or cannot be read), twice. Two gaps per file are what it takes for one
proposal to move the lines of the next. Fairness: the pipeline is one function and
runs on. `AllOrNothing` compares the text with what the report says was applied;
`GapsAccounted` that each required hook is detected, reported failed or warned of;
`PassedFilesJudged` that the file on the disk is the text that passed, whatever was written before
or after, so that it can run to its end or to one that mentions an import error;
`EveryFileHandled` that each file ends in the report.

### BundleKits, ExecutionTracking, GovernedTask

`BundleKits` holds, for each of the six copies of `awcp_kit.py`, the values in which they
differ, each as a definition mapped to that copy's lines: which risks pause, whether the
worker survives its first statement, which routes exist, what a tool call can end with, who
counts tokens. What they share is modelled once.

`ExecutionTracking` splits the radar's three coroutines at their awaits (`calls` holds the
requests under way and the stage each is in; `execWorkflows` the map of tasks to workflows)
and has the workflow of a task with its finish signal, its hour of silence and its
termination. The radar takes a task out of its map before it signals the workflow, and a signal
that raises is only logged (`FinishFails`, where `Finish` is the signal that arrives); Temporal may
have started a workflow although the start raised (`StartUnheard`); a restart of the radar loses the
map, the calls under way and the requests kept in memory (`RestartTracking`, `RestartRadar`).
`dropped` is a history variable: the tasks one of these has happened to. `GovernedTask` adds the worker thread (`pc`), the pause of a write (`event`,
`set`, `decision`, each pause with an event object of its own), the handlers of the agent's
routes between any two statements of the worker, the radar's approval requests, and the
gateway, which reads the agent's record and then the workflow.

| Action | Code |
|---|---|
| `SubmitTask`, `TakeTask`, `BeginGoal`, `GoalReturns`, `GoalRaises`, `Synthesize`, `CheckStop`, `SettleStatus`, `CompleteTask`, `EndTask` | `submit_task`, `_worker_loop` |
| `GoalCallsTool`, `AnnouncePause`, `RequestApproval`, `Wake`, `Resume`, `ExecuteTool` | `call_tool`, `governed_action` |
| `FindEvent`, `WriteDecision`, `SetEvent`, `LookAtStatus`, `SettleCanceled` | `approve_task`, `cancel_task`, statement by statement |
| `DecideApproval`, `ConsoleDecides`, `StopTask`, `ReadRecord`, `ShowAnswer` | the radar's `/approvals`, the agent's console, the gateway |
| `RefuseStart` to `CompleteExecution` | `execution_start`, `execution_event`, `execution_complete_ep` |
| `Finish`, `FinishFails`, `StartUnheard`, `RestartRadar` | `handle.signal`, `start_workflow` and their `except`; a new radar |
| `SeeDone`, `IdleTimeout`, `CloseWorkflow`, `TerminateWorkflow` | `AgentExecutionWorkflow.run`, `handle.terminate` |
| `GiveUp`, `LoseCall` | the kit's timeouts, an unreachable radar |

`governed_task` has one task in each of three kits (pausing with the radar, a dead worker,
no cancel route), a tool call and the write that ends the task, so two pauses; two
verdicts, a stop, a lost or abandoned call or a restart of the radar, and a reading of the
answer, at most two of these per behaviour (`MaxOutside`): a second verdict is what it takes to meet a
later pause, a stop between them to meet both. Signals and starts of the radar may fail whenever they are made, without
bound. `answer_shown` has neither verdicts nor faults.
Fairness: the worker goes on, the radar answers, Temporal runs what it can run, handlers
return; nobody is assumed to decide or stop. A pause ends by its timeout. The kits whose
worker dies at its first statement are exempt from `TaskAndWorkflowEnd` (`Survives`): their
tasks stay queued. `OrphansExplained` names what leaves a
workflow open and untold after its task has ended: the task was stopped, the kit missed an
answer of the radar, or the radar lost sight of the workflow (`dropped`). Such a workflow closes by
its hour of silence, which `TaskAndWorkflowEnd` includes.

Simplifications: tools of one answer called in parallel, which share their task's pause,
calls outside a task and `APPROVAL_REQUIRED=false` are left out; write approvals are one set,
whether they are kept in the database or in memory.

### MC_ToolPlane: the parts around a tool call

The run `tool_plane` is the disjoint union of nine instances, one for each `focus`.

**GuardHooks** (`hooks`). `lists` is every list object the manager has had, `bucket` the
current one; `unregister` replaces the list, `register` appends to it and sorts it under the
lock, and it looks empty meanwhile. `dispatch` finds the list (`FindHooks`), tests it
(`TestEmpty`), copies it (`CopyHooks`) and runs the hooks (`RunHook`), three of them
without the lock. `moments` records what the guard in force said at each moment of an
evaluation. Three operations of operators replace a guard under an evaluation and switch it.

**OperatorPolicy and ToolTiers** (`tiers`, `policy`). A document is three sequences of
rules; matching prefers a plain key to a glob and an id to a name. A field a rule does not have
(`Unset`) and one it leaves to the default or sets to null (`Default`) differ: an agent's rule is
laid over the default of all agents field by field, and a `Default` in it hides theirs, where a
tool's falls back to that of all tools. `StorePolicy`,
`LoadPolicy`, `InstallPolicy` are `save` and `reload`. The OPA agent finds a tier
(`LookTier`, `TakeSlmLock`, `Classify`, `KeepTier`), then its cached document
(`ReadPolicyCache`, `LoadDoc`, `CacheDoc`, `TtlPasses`), then answers (`Evaluate`); the
radar lays its own document over that (`OverrideAnswer`). With focus `tiers` two calls race
for one unclassified tool under one document; with `policy` two operators save two
documents while one call is judged. Fairness: threads run on and time passes.
`SavedPolicyReaches` excepts a radar that is `misled`: the save of the newest document overlapped
another one, or its load failed. The next save that overlaps none ends that.
`SkillsOnlyTighten` quantifies over every agent, skill set and threshold.

**EvidenceChain** (`chain`, `trail`) **and WorkingSet**. Rows carry the tick of their
transaction's start as timestamp and the hash of the latest row committed when they asked.
With `chain` two writers overlap; with `trail` one writes every kind of step, and the
readers are compared with what is there. A write may fail before or after it has landed;
then the step lives in the ring. `WorkingSet` takes any nodes a reader has got, in any order
of relevance, and seats them in a budget; `AnchorSeated` is evaluated on every state's nodes.

**Presence** (`presence`). The agent registers and beats; a beat without an answer is
followed by a registration; a scan is taken, and merged later; rows age. Two starts and two
mishaps (a lost call, a failed scan, a removal, a crash of the radar) meet each other.
Fairness: the loops run on, the radar comes back, time passes. The heartbeat's period equals
the age at which a row counts as dead, so presence is required again and again, not always.

**KitTokens** (`tokens`). Two calls, each by a wrapped client, as a stream or by other means,
by the worker or another thread; the wrapper and the HTTP hook each look at a flag the other
sets. `tally` counts how often a call has been counted.

**ToolServer** (`server`). The kit discovers tools with their risks when imported
(`DiscoverTools`), declares its scopes when mounted (`MountAgent`), asks an operator about
writes (`OperatorAnswers`), sends the call, may give up on it; the server, deployed anew with another
map of risks in between, takes it (`TakeRequest`), asks the radar's gate (`RadarGate`) and
runs it (`RunTool`), leaving a checkpoint in `trail`. The kit's own writes carry a risk of
their own. Requests are served one at a time because `execute_tool` is not a coroutine.

**Launcher** (`launcher`). Two questions for one agent at the gateway, and the control panel,
each look for a process, and start one if there is none. The port is fixed, so the second
process dies at `BindPort`; a start that takes too long is answered 504 and may be repeated.
Three runs of `run.sh` and two clicks bring two processes and a stop.

| Property | Focus |
|---|---|
| `VerdictOfAMoment` | `hooks` |
| `TierDecidedOnce`, `SkillsOnlyTighten`, `SavedPolicyReaches` | `tiers`, `policy` |
| `ForksOnlyByOverlap`, `AnchorSeated` | `chain`, `trail` |
| `PresenceTracksProcess` | `presence` |
| `MeteredAtMostOnce` | `tokens` |
| `RunsAsClassified` | `server` |
| `FoundStaysFound` | `launcher` |

Left out: a pid that is used again; the write tiers differing between two processes; the
record of OPA decisions, which is output.

## Findings

Five statements of the repository are refuted by a run:

- **A crash opens the approval gate** (`admission_crash`). `register` stores the
  pending entry and then writes the token row "which is what makes it survive a
  restart" (`radar/api.py:1414`). `approval_state` has no column: after a crash in
  between, the entry comes back with its widened scopes and no gate.
- **A restart strands an onboarding run** (`admission_cut`). The manager is to "Trigger
  onboarding for any entry that hasn't been onboarded yet" (`radar/api.py:848`), and takes an
  entry with any onboarding state for one that has. An inline run cut off by a restart leaves
  its entry "pending" for good.
- **A token serves for another class** (`gate_class`). "The token authorizes only the approved
  action class" (`radar/tokens.py:8`); the statement that claims a token does not
  compare classes, so an approved scope expansion lets a write through, if it carries its scope.
- **A failed call keeps its reservation** (`budget_reservation`). `pre_check` reserves
  and its "Caller MUST call release_inflight()" (`laminar/bridge.py:486`); the gateway
  answers 502 without doing so. Calls to a model that is down use up the agent's
  budget until the radar restarts.
- **The answer of a blocked task is shown** (`answer_shown`). "never show an answer the
  control plane blocked" (`gateway/user.py:405`). The block is read from the workflow's
  result, which is there only once the workflow has been signalled, has run its last
  activity and has closed; an agent that waits for approval of the write that ends
  its task has its result already, and `ask` returns it.

The following came up while modelling. The first group is allowed for, by name,
in properties that hold:

- A handler that decides from a snapshot older than a re-registration makes a
  waiting agent active (`GateOnlyLostToRace` names exactly that race).
- A signal or breach that acts on an overtaken snapshot raises an agent again
  (`RaisedOnlyByRace`), or loses a failure that was counted.
- Between SIGSTOP and the journal row a crash leaves a frozen process no start
  releases, although "Every stop WE apply is recorded" (`radar/api.py:269`); a row
  that is refused is not retried; a second stop of another kind overwrites the row
  of the first, and the release of either deletes it (`StopsJournaled`).
- The answer to a resume directive is not looked at; a suspend directive whose answer
  is lost is not tracked. Of two releases of one agent the slower forgets a stop
  applied in between; once the agent is removed nothing resumes it
  (`StopsTracked`, `RecoveredReleased`). Recovery deletes the rows of entries it
  failed on.
- A workflow whose finish signal raised, whose start raised after it had begun, or whose task was
  in the map of a radar that restarted, is never told its end and closes by its timeout
  (`OrphansExplained`).
- Of two overlapping saves the one that has loaded first may install last, since only the
  installation is under the lock: its older policy stays in force, though "the ACTIVE policy is
  always the most-recent row" (`radar/operator_policy.py:11`; `misled` in `SavedPolicyReaches`).
- In crewai, writeup and fileinspector hook calls patched into the head of `_worker_loop` read
  `task` or `tid`, which is not bound yet (`crewai_agent/awcp_kit.py:1247`,
  `writeup_agent/awcp_kit.py:1165`, `fileinspector_agent/awcp_kit.py:548`): the thread dies at its
  first statement, and goals are queued that nobody takes up, although they are to be "processed one
  at a time" (`crewai_agent/about.html:73`; `Survives` in `TaskAndWorkflowEnd`).
- The `CHECK` of `registry.agents` refuses the rungs of an agent's own ladder: the transaction over
  all rows is rolled back, and a start in between finds the agent where it stood before it stepped
  down, although "a restart restores self-registered agents from the DB" (`radar/store.py:5`). Other agents'
  rows stay behind as long as one is on such a rung (`Accepted` and `refused` in `RowCatchesUp`).
- The sandbox is to pass over a run that "failed solely due to an unresolvable import"
  (`python_sandbox_validator.py:393`) and looks for the words anywhere on standard error: a hook
  that raises after the program has printed an import error it caught is reported as passed
  (`ImportErrorOnly` in `PassedFilesJudged`).

The second group is part of the models, and no property speaks about it:

- A heartbeat is a signal with `ok=true` and resets the failure count: an agent whose
  tasks fail more slowly than its heartbeat beats never steps down, though failures are
  to "step autonomy down the ladder once the failure budget is exhausted"
  (`radar/api.py:1792`). `FailingAgentStops` is about an agent heard from by failures only.
- An announcement drops hooks nobody must observe.
- Every registration, a restarted agent's included, resets the profile to `active`.
- A token is claimed before the guard hooks and the operator policy decide: a denial
  then wastes it, and the event says `auto_authorized` (`wasted` in
  `Authorization`). A token of a class in `OPERATOR_ACTION_CLASSES` can be
  approved and is never asked for by the gate.
- A process is checked for co-tenants before it is frozen; one that registers later
  stays frozen with it ("never frozen", `radar/api.py:510`). A pass that outlives the
  cancelled reconciler task may stop an agent after shutdown has released all
  ("never leave any agent stopped", `radar/api.py:576`); the journal holds that stop.
- `radar/db.py` calls a local JSON file the source of recovery; there is none.
- `_write_db` says its transaction leaves the chain without a race
  (`context_graph/store.py`); under read committed two writers fork it
  (`ForksOnlyByOverlap`). `recent_nodes` orders by time ascending under a limit and so
  returns the oldest rows, while the ring returns the newest; a resume pointer is the newest
  step even when it is stale; a blocked snapshot supersedes the last good one.
- A scan that times out answers with an empty list and is merged like one, so every scanned
  row is marked dead, though the log line says the cycle is skipped
  (`radar/scanner.py:46`). Whatever is removed comes back with the next heartbeat;
  fileinspector has no heartbeat and does not.
- The start of a task is refused to an agent over its token budget, and the kit runs the
  task untracked. The answer to an execution event is ignored: "halts the loop"
  (`radar/api.py:2433`) is the radar's view only. A task stopped while it was queued is
  taken and run all the same. An approval is released by task, not by write
  (`awcp_kit.py:553`).
- The tier of a tool is decided by the input of its first call; the default tier that takes
  the place of a model that did not answer is kept for good. The radar waits 3 s for the
  OPA agent, which waits 30 s for its model: the first call of a tool may pass unjudged.
- Two policies saved at once may get one version number. A rule that leaves an agent's risk to
  the default ("default" or null) hides the default of all agents instead
  (`radar/operator_policy.py:236`). Postgres reorders the keys of a
  JSON object, so the first matching glob need not be the operator's first.
- While the guard is replaced, and while its list is sorted, a gate sees no guard.
- Model calls already under way when a wrapper is first used, streams of the OpenAI client
  and calls on other threads are not counted; a task that failed reports no tokens.
- The MCP server ignores the kit's `approved`, prefers the kit's risk to its own, and runs a
  call the kit has reported as "not executed" after a timeout.
- A file is written before it is validated, and a module that cannot be imported in the
  sandbox passes; a reply's own imports are put in unseen, so that a patch may cause what is passed
  over. A failed write may leave the file empty, and is reported as a warning. The expected name of the
  approval hook is a substring of another one's.

## Proofs

The theorems hold for every value of the constants that satisfies the named
assumptions, none of which goes beyond typing and distinctness: `Loop` is a
thread, limits are naturals, ladders are not empty and repeat no rung, budgets
are positive, `NoToken` is no token, targets are not `None`, processes and endpoints
differ, gateway calls are finitely many and neither events nor threads, an event is no step,
there is a task, an agent's risk is a tier, a server's map names a risk for each tool it lists,
`Nobody` is no call, a step counts for a natural number of tokens, the scan meets a path once and a repository maps its paths to lines. `CallsRunAsClassified` has a hypothesis of its own, stated with it. TLC
evaluates the assumptions in every run. Where a theorem of `Admission` assumes one thread
(`Thread = {Loop}`) the property fails with two.

**Admission.** `TypeCorrect` goes action by action. `GateLostOnlyToRace` needs types
only: a step either leaves gate and status of an entry alone, or writes what
`DecideStatus` makes of a snapshot, which is active only if the snapshot was not
pending. `SerialGate` strengthens: with one thread whatever a handler or a
pipeline holds agrees with the entry on the fields that decide
(`SnapshotCurrent`), so the race cannot occur (`SerialInv`). `SerialScopes` adds
`ScopesInv`: the scopes of an entry are granted or its approval is pending, and
`history` keeps what earlier entries were granted. It holds until the radar first
restarts: the event counts only grow (`SpendGrows`), so a behaviour with no restart
behind it had none at any step. After a restart the property is open to the crash
`admission_crash` shows.

**Policy** (in `LadderProofs` and `GateProofs`). A non-empty set of positions has a least one (`LeastExists`, by
contradiction with a finite set's minimum); hence a rung's position is unique on a
ladder without repetition, `NextProfile` adds one to it (`StepDownLowers`), and
writes blocked at a rung are blocked below (`BlockedStaysBlocked`).
`EnginesAgree`: the first rule of `gate.rego` whose body holds is the return
`policy.evaluate_action` takes, rule by rule.

**DegradationLadder.** `CurrentNotRaised`: a step that writes from a snapshot with
the entry's profile and ladder does not raise it. `RaceRaises` is its
contrapositive; `SerialOnlyLowered` shows that snapshots are current until two
handlers overlap.
`SerialRung` carries along that an override in flight names a rung of the entry's
ladder (`RungInv`). What is stored plays no part in them: that rows catch up is liveness.

**GateTokens.** `GateInv` is inductive for any number of calls: only a call past
`consume` holds a token; what is held is consumed and carries the scope asked for;
no token is held by two calls; writes under a token imply that it is consumed; an
allowed risky write holds one. `RiskyWritesSpend` is its last conjunct; nothing in it is
about classes, which the code does not compare.
`GateImplements` shows step simulation under `Approval(k)`: each action moves each
token along one edge of `Moves` or leaves it (`Follows`), with the cases where one
statement moves several tokens at once.

**HardStop.** `StopsTracked` and `StopsJournaled` are not inductive: a thread that
has resumed a target is about to drop the entry that holds it, and another thread
may stop the target anew before it does. `StopInv` therefore counts an entry only
if no thread that has already resumed its target, and that no later stop has
overtaken, is about to drop it (`Resumed`). Besides types it needs that a release
which has not been overtaken forgets its own stop (`ReleasesOwn`), that a stop about
to be noted is not tracked yet, that a target resumed before its row is written is
no longer stopped (`ResumedStays`), and that nothing runs while the radar is down.

**LlmBudget.** `GatewayWithinBudget` rests on `Room`: window and reservations together
stay below what exhausts the largest budget, counting a call that is metered twice,
as recorded and as reserved, until it is over (`Unreleased`). `PreCheck` establishes
it, because only coroutines touch reservations and at most one is between two awaits
(`LoopInv`); it needs the budget a call has read to be one that applied (`CapInv`),
and `Kept`, that the tokens reserved are at least those the calls hold. `Kept` is
`ReservationsKept` in a form that can be taken apart: `HeldChange` says that a step
of one call changes the number of tokens held by what that call holds, for any
finite set of calls. `ExhaustionIsReported`: as long as nothing is disturbed, either
on_breach was called or some actor still has the exhaustion before it (`Pending`):
it is about to look, has seen it, or is about to compare it or report it.

**GovernedTask.** `OneApprovalPerWrite` counts writes against verdicts, but a verdict is many
steps away from the write it releases: `ApprovalsCover` adds to the writes that have run the
approvals on their way to being stored, the one stored in the pause the worker waits in, and
the one that write under way has used up. `VerdictStands` needs that only one actor at a time
may tell a workflow of its end (`OneTells`): the radar as long as it keeps the workflow in its
map, then the one call that has taken it out. `OrphansExplained` says what must have happened
to a workflow that stays open. `OpenIsKept`: an open workflow that was not told is in the
radar's map or with a call about to tell it, or was dropped. `Informed`, for tasks no call of which was lost or
abandoned and that were not dropped: the kit knows what its start came to before it goes on, and a task that ended without
being stopped has told the radar, or is telling it. A restart of the radar drops every task it
knew or was about to know (`RestartFrame`). Both need that a task is queued and started
once (`QueuedOnce`, `StartedOnce`). `TaskInv` is their conjunction with the types.

**KitTokens** (in `ToolPlaneProofs`, as are the next seven). `MeteredAtMostOnce` needs to know
where a call is. A wrapper has marked its client before its call is sent, so the hook leaves a
wrapped call alone for as long as it is under way (`Marked`); a call the worker has not got back
belongs to the current task, and other threads' calls are never counted (`OwnCalls`); so a call
is counted by one of the two, at one of its stages, and is reported with the task it was counted
in (`CountedOnce`).

**EvidenceChain.** `ForksOnlyByOverlap` follows from three facts about ticks. A transaction
that is alone is later than every row, and what it selected is still the latest row
(`Alone`); a row written alone names the row before it and is earlier than every open
transaction (`Sealed`); so no later commit can come between the two. Failed writes, events
off the ledger and restarts only end transactions (`EndingKeeps`).

**WorkingSet.** `AnchorSeated` is about what readers get, so its invariant is about times: no two
rows and no two nodes of the ring are of one time, nor is anything on its way to either
(`TrailInv`). That the newest step, when it took effect, is fresh and first in order follows; a step
of the same time might take its place. The order is every fresh step, each once
(`OrderIsWhole`, by the places of the others before and after the newest). Seating and sums of
tokens are functions on the first places of a sequence: that there are such functions
(`TotalsExist`, `SeatsExist`), and what holds of them at every place (`SeatsFit`), is shown by
a least place where it fails. What was passed over never fits later, since tokens only add up.

**ToolTiers.** `TierDecidedOnce` becomes inductive with two facts: every tier a call was judged by is the one in the cache (`UsedIsCached`), and a call that asks the model, or
holds its answer, has the lock, and nobody has cached a tier before it (`OneClassifies`), since
the cache is looked at again under the lock.

**OperatorPolicy.** `SkillsOnlyTighten` needs no invariant: for any document a skill's rule is
looked at only for an agent the operator has not named, where it says "no" or nothing
(`SkillsOnlyDeny`), and the risk of an agent is the higher of its own and its skills'
(`SkillsRaiseRisk`). The theorem says it of every document the radar may have installed.

**ToolServer.** What holds when a call runs was decided in the kit, possibly under another map
of risks than the server's. `CallsClassified` follows the call from the question to the operator
into the inbox and to the tool: it carries the risk it was classified by and the scopes
declared when the agent was mounted, and a write is in them because whatever the kit has
discovered as a write is declared (`WritesAreScopes`). The hypothesis `AsksAboutWrites` says
that a kit asks an operator only about tiers the gate takes for writes; every kit's defaults
satisfy it, a deployment that takes `high` out of `AWCP_WRITE_RISK_TIERS` in the kit's process
does not, and then approvals of calls that are no writes reach the server.

**Launcher.** `FoundStaysFound`: status asks the oldest process it finds. One begun later has a
greater pid (`InOrder`), so it never takes that place; the port is fixed, so at most one process
listens (`OneListens`); whoever is done holds a process (`Taken`).

**GuardHooks.** `VerdictOfAMoment` compares an answer with what the guard has said while the
evaluation was under way. What is in force now has been said in any case. An evaluation may hold a
list that was replaced, or hooks that were taken out since: `HookInv` says that a replaced list
had exactly one guard, and that a guard which has lost the name said, when it lost it, what it
says now (`Retired`), because only the guard that has the name is ever switched on or off. The
guard that has the name is the only one in the list, but for the moment between removal and
append (`OneGuard`). That filtering and sorting a list keeps the hooks it should is shown with
the number of earlier places, of which every one occurs once (`EveryPlace`).

**Instrumentation.** `PipeInv` says which proposals there are and how many of them are dealt
with in each phase. The three properties add to it, each on its own. `GapsAccounted`: a proposal
that was dealt with is applied or an error (`Outcome`), and what is about to be written was looked
at by detection after its last change (`Reported`). `PassedFilesJudged`: a file still to come has no
verdict yet, so writing it, or tearing it, spoils none, and the text that is judged is the one on the
disk unless the write failed, which is warned of (`Delivered`); a file is met once in a run. `AllOrNothing` counts: the text to undo to holds the
applied proposals whole, the working text besides as many lines as there were changes of the
proposal in hand (`Counted`). A line put in anywhere adds itself to the count of its category and
changes no other (`SplicedCount`, by a bijection of places); the injected import has no category;
and the gaps are distinct, because in a strict total order no two have equally many before them
(`EveryRank`). What detection finds and how a run of the text ends play no part, and stay
unexpanded.

Model-checked only is liveness, which is out of the prover's reach: `WorkingAgentsAdmitted`,
`OnboardingCompletes`, `FailingAgentStops`, `RecoveredReleased`, `TaskAndWorkflowEnd`,
`SavedPolicyReaches`, `PresenceTracksProcess`, `EveryFileHandled`, `RowCatchesUp`. Every other property of a
passing run is stated by a theorem.

`OnlyLowered`, the types of `LlmBudget` and `StepDownLowers`, `BlockedStaysBlocked`,
`EnginesAgree` are theorems no run checks.

## Plan

1. A breach of `LlmBudget` as the input of `DegradationLadder` and `HardStop`.
2. Write approvals in two stores with two ranges of ids (`radar/api.py:2062`).

### Not modelled

- Code sandbox: one container whose calls are served one after the other; nothing
  interleaves, and what runs inside is Docker's.
- Static agent registry: read from files at start-up and never changed.
- Bundled agents and tools: prompts, graphs of model calls and third-party requests.
- Telemetry, metrics, logging and the web interface: output and pages over the endpoints.
- Of modelled components: which process counts as an agent (recognition by name), how tokens
  are estimated from text, OTLP export and read-only endpoints, uploads, report formats, and the
  tools' own work.
