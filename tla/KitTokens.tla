------------------------------ MODULE KitTokens ------------------------------
(***************************************************************************)
(* How a kit counts the tokens of a task (awcp_kit.py: token capture). An  *)
(* LLM call may be counted twice over: by the wrapper around the client,   *)
(* at its result, and by the hook on every HTTP response, which leaves a   *)
(* client alone once its wrapper has been used. Counts belong to the       *)
(* thread that makes the call; the worker thread clears its own when a     *)
(* task starts and reports them when it ends.                              *)
(***************************************************************************)
EXTENDS BundleKits, Sequences

CONSTANTS
  MaxCalls,         (* bound on LLM calls                                   *)
  MaxTasks          (* bound on tasks                                       *)
ASSUME CallsAssumption == MaxCalls \in Nat

Client == {"ollama", "openai"}

(* How a call is made: by the client the wrapper knows, by its stream, or  *)
(* by something else that speaks to the same endpoint.                     *)
Manner == {"client", "stream", "other"}

VARIABLES
  kit,              (* whose kit it is                                      *)
  clientActive,     (* _OLLAMA_CLIENT_ACTIVE, _OPENAI_CLIENT_ACTIVE         *)
  doing,            (* whether the worker runs a task                       *)
  tasks,            (* tasks so far                                         *)
  calls,            (* every LLM call: client, manner, thread, task, stage  *)
  tally,            (* _LLM_TOKENS of the worker: times each call is in it  *)
  reports           (* history: times each call has been reported           *)
tokenVars == <<kit, clientActive, doing, tasks, calls, tally, reports>>

Nothing == [c \in 1..MaxCalls |-> 0]

TokensInit ==
  /\ kit \in Kit
  /\ clientActive = {} /\ doing = FALSE /\ tasks = 0
  /\ calls = <<>> /\ tally = Nothing /\ reports = Nothing

StartTask ==
  /\ ~doing /\ tasks < MaxTasks /\ Survives(kit)
  /\ doing' = TRUE /\ tasks' = tasks + 1
  /\ tally' = Nothing
  /\ UNCHANGED <<kit, clientActive, calls, reports>>

Wrapped(call) == call.manner # "other" /\ call.client \in Wraps(kit)

(* Mutant: the wrapper marks the client once its call has returned.        *)
CallLlmUnmarked(client, manner, worker) ==
  /\ worker => doing
  /\ Len(calls) < MaxCalls
  /\ calls' = Append(calls, [client |-> client, manner |-> manner, worker |-> worker,
                             task |-> tasks, stage |-> "sent"])
  /\ UNCHANGED <<clientActive, kit, doing, tasks, tally, reports>>

(* The task, or any other thread of the bundle, calls a model.             *)
CallLlm(client, manner, worker) ==
  LET call == [client |-> client, manner |-> manner, worker |-> worker,
               task |-> tasks, stage |-> "sent"]
  IN /\ worker => doing
     /\ Len(calls) < MaxCalls
     /\ calls' = Append(calls, call)
     /\ clientActive' = IF Wrapped(call) THEN clientActive \cup {client} ELSE clientActive
     /\ UNCHANGED <<kit, doing, tasks, tally, reports>>

Count(c) == tally' = IF calls[c].worker THEN [tally EXCEPT ![c] = @ + 1] ELSE tally
Moved(c, stage) == calls' = [calls EXCEPT ![c].stage = stage]

(* The hook: not a stream, not a client that counts for itself.            *)
HookResponse(c) ==
  /\ calls[c].stage = "sent"
  /\ Moved(c, "answered")
  /\ IF HookMeters(kit) /\ calls[c].manner # "stream" /\ calls[c].client \notin clientActive
       THEN Count(c) ELSE UNCHANGED tally
  /\ UNCHANGED <<kit, clientActive, doing, tasks, reports>>

(* The wrapper: the stream of ollama at its last chunk, openai's not.      *)
ReturnResult(c) ==
  /\ calls[c].stage = "answered"
  /\ Moved(c, "returned")
  /\ IF Wrapped(calls[c]) /\ (calls[c].manner = "stream" => calls[c].client = "ollama")
       THEN Count(c) ELSE UNCHANGED tally
  /\ UNCHANGED <<kit, clientActive, doing, tasks, reports>>

(* A call of the worker that fails, or a stream the task does not read to  *)
(* its end, counts no further.                                             *)
AbandonCall(c) ==
  /\ calls[c].stage \in {"sent", "answered"}
  /\ Moved(c, "returned")
  /\ UNCHANGED <<kit, clientActive, doing, tasks, tally, reports>>

(* The goal ends once its calls have; one that fails reports nothing.      *)
EndTask(reported) ==
  /\ doing
  /\ \A c \in DOMAIN calls : calls[c].worker => calls[c].stage = "returned"
  /\ doing' = FALSE
  /\ reports' = IF reported THEN [c \in 1..MaxCalls |-> reports[c] + tally[c]] ELSE reports
  /\ UNCHANGED <<kit, clientActive, tasks, calls, tally>>

TokensNext ==
  \/ StartTask
  \/ \E client \in Client, manner \in Manner, worker \in BOOLEAN : CallLlm(client, manner, worker)
  \/ \E c \in DOMAIN calls : HookResponse(c) \/ ReturnResult(c) \/ AbandonCall(c)
  \/ \E reported \in BOOLEAN : EndTask(reported)

TokensSpec == TokensInit /\ [][TokensNext]_tokenVars

-----------------------------------------------------------------------------
(* However the wrappers and the hook share the calls of an agent, no call  *)
(* is charged to the agent's budget twice, and only calls the worker made  *)
(* for a task are charged to it (the comment on double counting in         *)
(* _httpx_response_hook; the counters of _worker_loop).                    *)
MeteredAtMostOnce ==
  \A c \in DOMAIN calls :
    /\ reports[c] + (IF doing THEN tally[c] ELSE 0) <= 1
    /\ doing /\ tally[c] > 0 => calls[c].worker /\ calls[c].task = tasks
=============================================================================
