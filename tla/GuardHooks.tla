----------------------------- MODULE GuardHooks -----------------------------
(***************************************************************************)
(* The hooks that fire when a gate is evaluated (agent_hooks/manager.py):  *)
(* at most one policy guard that may veto, and observers behind it.        *)
(* Operators replace, remove, disable and enable the guard while           *)
(* evaluations are under way.                                              *)
(*                                                                         *)
(* The manager keeps a list object per hook type. unregister puts a new    *)
(* list in its place; register appends to the one that is there and sorts  *)
(* it, and a list looks empty while it is sorted. Both hold the lock;      *)
(* dispatch takes it only to copy the list it has found before.            *)
(***************************************************************************)
EXTENDS Naturals, Sequences, FiniteSets

CONSTANTS
  Evaluator,        (* threads that evaluate a gate                         *)
  GuardedTool,      (* tools a guard may name                               *)
  MaxHookOps        (* bound on operator requests                           *)

NoHook == 0
Observer == [id |-> NoHook, deny |-> {}]
Guard(id, tools) == [id |-> id, deny |-> tools]

VARIABLES
  lists,            (* every list object there has been, in order           *)
  bucket,           (* _by_type[GATE_EVALUATED]: number of the list         *)
  named,            (* _by_name["policy-guard"]: id of the guard            *)
  disabled,         (* ids of the guards whose enabled is False             *)
  swap,             (* the registration that holds the lock                 *)
  eval,             (* the evaluation each thread is in                     *)
  moments,          (* history: what the guard in force has said of its     *)
                    (* tool since the evaluation began                      *)
  hookOps           (* operator requests so far                             *)
hookVars == <<lists, bucket, named, disabled, swap, eval, moments, hookOps>>

NoSwap == [stage |-> "none"]
NoEval == [stage |-> "idle"]

HookInit ==
  /\ lists \in {<< <<>> >>, << <<Observer>> >>}
  /\ bucket = 1
  /\ named = NoHook /\ disabled = {}
  /\ swap = NoSwap
  /\ eval = [e \in Evaluator |-> NoEval]
  /\ moments = [e \in Evaluator |-> {}]
  /\ hookOps = 0

(* The hooks at some places of a list, in its order.                       *)
AtPlaces(list, places) ==
  [i \in 1..Cardinality(places) |->
    list[CHOOSE n \in places : Cardinality({m \in places : m < n}) = i - 1]]
Without(list, id) == AtPlaces(list, {n \in DOMAIN list : list[n].id # id})
(* The guard before the observers.                                         *)
ByPriority(list) ==
  LET guards == {n \in DOMAIN list : list[n].id # NoHook}
  IN AtPlaces(list, guards) \o AtPlaces(list, DOMAIN list \ guards)

LooksEmpty(list) == lists[list] = <<>> \/ (list = bucket /\ swap.stage = "sorting")

Vetoes(hook, tool) == hook.id \notin disabled /\ tool \in hook.deny

(* What an evaluation that ran at once would get from the hooks.           *)
InForce(tool) ==
  IF ~LooksEmpty(bucket) /\ \E i \in DOMAIN lists[bucket] : Vetoes(lists[bucket][i], tool)
    THEN "deny" ELSE "allow"

Watched ==
  moments' = [e \in Evaluator |->
    IF eval[e].stage \in {"idle", "done"} THEN moments[e]
    ELSE moments[e] \cup {InForce(eval[e].tool)'}]

-----------------------------------------------------------------------------
(* configure_guard, and the endpoints that enable and disable a hook.      *)

Request ==
  /\ swap = NoSwap
  /\ hookOps < MaxHookOps /\ hookOps' = hookOps + 1

Unregistered ==
  IF named = NoHook \/ lists[bucket] = <<>> THEN UNCHANGED <<lists, bucket>>
  ELSE /\ lists' = Append(lists, Without(lists[bucket], named))
       /\ bucket' = Len(lists) + 1

ReplaceGuard(tools) ==
  /\ Request
  /\ Unregistered
  /\ named' = hookOps + 1
  /\ swap' = [stage |-> "append", guard |-> Guard(hookOps + 1, tools)]
  /\ UNCHANGED <<disabled, eval>>
  /\ Watched

AppendGuard ==
  /\ swap.stage = "append"
  /\ lists' = [lists EXCEPT ![bucket] = Append(@, swap.guard)]
  /\ swap' = [swap EXCEPT !.stage = "sorting"]
  /\ UNCHANGED <<bucket, named, disabled, eval, hookOps>>
  /\ Watched

SortHooks ==
  /\ swap.stage = "sorting"
  /\ lists' = [lists EXCEPT ![bucket] = ByPriority(@)]
  /\ swap' = NoSwap
  /\ UNCHANGED <<bucket, named, disabled, eval, hookOps>>
  /\ Watched

RemoveGuard ==
  /\ Request
  /\ named # NoHook
  /\ Unregistered
  /\ named' = NoHook
  /\ UNCHANGED <<disabled, swap, eval>>
  /\ Watched

SetEnabled(enabled) ==
  /\ Request
  /\ named # NoHook
  /\ disabled' = IF enabled THEN disabled \ {named} ELSE disabled \cup {named}
  /\ UNCHANGED <<lists, bucket, named, swap, eval>>
  /\ Watched

-----------------------------------------------------------------------------
(* dispatch, and what the gate makes of its outcome.                       *)

FindHooks(e, tool, decision) ==
  /\ eval[e] = NoEval
  /\ eval' = [eval EXCEPT ![e] = [stage |-> "test", list |-> bucket, tool |-> tool,
                                  decision |-> decision]]
  /\ moments' = [moments EXCEPT ![e] = {InForce(tool)}]
  /\ UNCHANGED <<lists, bucket, named, disabled, swap, hookOps>>

Running(task, rest, final) ==
  [stage |-> "run", tool |-> task.tool, decision |-> task.decision,
   rest |-> rest, final |-> final]

TestEmpty(e) ==
  /\ eval[e].stage = "test"
  /\ eval' = [eval EXCEPT ![e] =
       IF LooksEmpty(@.list) THEN Running(@, <<>>, "allow") ELSE [@ EXCEPT !.stage = "copy"]]
  /\ UNCHANGED <<lists, bucket, named, disabled, swap, moments, hookOps>>

CopyHooks(e) ==
  /\ eval[e].stage = "copy" /\ swap = NoSwap
  /\ eval' = [eval EXCEPT ![e] = Running(@, lists[@.list], "allow")]
  /\ UNCHANGED <<lists, bucket, named, disabled, swap, moments, hookOps>>

(* Mutant: the last hook decides.                                          *)
OutcomeOfLast(task) ==
  IF Vetoes(Head(task.rest), task.tool) THEN "deny" ELSE "allow"

Outcome(task) ==
  IF Vetoes(Head(task.rest), task.tool) THEN "deny" ELSE task.final

RunHook(e) ==
  /\ eval[e].stage = "run" /\ eval[e].rest # <<>>
  /\ eval' = [eval EXCEPT ![e] = Running(@, Tail(@.rest), Outcome(@))]
  /\ UNCHANGED <<lists, bucket, named, disabled, swap, moments, hookOps>>

(* _gate_guard: an allow may become a deny.                                *)
GateGuard(e) ==
  /\ eval[e].stage = "run" /\ eval[e].rest = <<>>
  /\ eval' = [eval EXCEPT ![e] =
       [stage |-> "done", before |-> @.decision,
        answer |-> IF @.final = "deny" THEN "deny" ELSE @.decision]]
  /\ UNCHANGED <<lists, bucket, named, disabled, swap, moments, hookOps>>

HookNext ==
  \/ \E tools \in SUBSET GuardedTool : ReplaceGuard(tools)
  \/ AppendGuard \/ SortHooks \/ RemoveGuard
  \/ \E enabled \in BOOLEAN : SetEnabled(enabled)
  \/ \E e \in Evaluator :
       \/ \E tool \in GuardedTool, d \in {"allow", "deny"} : FindHooks(e, tool, d)
       \/ TestEmpty(e) \/ CopyHooks(e) \/ RunHook(e) \/ GateGuard(e)

HookSpec == HookInit /\ [][HookNext]_hookVars

-----------------------------------------------------------------------------
(* Whatever guards are swapped, removed or switched meanwhile, a gate that *)
(* let a call pass answers what the guard in force at some moment of the   *)
(* evaluation said, and a gate that denied it still does: no evaluation    *)
(* mixes two guards, and the gap in which a guard is replaced is the only  *)
(* moment that says less than both (HookManager.dispatch, _gate_guard).    *)
VerdictOfAMoment ==
  \A e \in Evaluator :
    eval[e].stage = "done" =>
      IF eval[e].before = "deny" THEN eval[e].answer = "deny" ELSE eval[e].answer \in moments[e]
=============================================================================
