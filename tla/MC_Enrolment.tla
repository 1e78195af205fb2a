---------------------------- MODULE MC_Enrolment ----------------------------
(* Instances for TLC of how an agent comes under governance: its source is *)
(* instrumented, and its entry is admitted. They share no variable: a run  *)
(* moves one of them, its focus.                                           *)
(*                                                                         *)
(* Two repositories. One has an agent with a function and a main line,     *)
(* which lacks a lifecycle hook and a governance hook, and a file that is  *)
(* not Python; the other a script without functions, and a file that       *)
(* cannot be read. The sandbox cannot import the agent framework of the    *)
(* script.                                                                 *)
EXTENDS MC_Admission, Instrumentation

ThreeFiles == <<"a", "b", "c">>
Emits(t) == HookLine(t, "none", "none", "src")

Service == <<Line("future", "annotations"), Line("import", "opentelemetry"),
             Line("import", "awcp"), Line("def", "run"), Line("doc", "none"),
             Line("local", "none"), Emits("TASK_STARTED"), Emits("TASK_COMPLETED"),
             Line("main", "none")>>
Script == <<Line("import", "tenacity"), Line("work", "on_task_start"),
            Line("work", "on_task_complete")>>

TwoRepositories == {[f \in FileSet |-> IF f = "a" THEN Service ELSE Torn],
                    [f \in FileSet |-> IF f = "a" THEN Script ELSE Torn],
                    [f \in FileSet |-> IF f = "a" THEN Torn ELSE Script]}
Tracing == {"awcp", "opentelemetry"}
EveryKind == {"right", "twice", "named", "wrong", "broken", "top", "local", "exc", "empty",
              "bare", "alien"}

-----------------------------------------------------------------------------
VARIABLE focus

EnrolmentInit ==
  /\ focus \in {"source", "entry"}
  /\ Init
  /\ PipelineInit
  /\ focus = "source" \/ disk = CHOOSE r \in Repositories : TRUE
  /\ focus = "source" \/ ~dry

EnrolmentNext ==
  /\ UNCHANGED focus
  /\ \/ focus = "source" /\ PipelineNext /\ UNCHANGED vars
     \/ focus = "entry" /\ Next /\ UNCHANGED pipelineVars

EnrolmentSpec ==
  /\ EnrolmentInit
  /\ [][EnrolmentNext]_<<focus, vars, pipelineVars>>
  /\ WF_pipelineVars(focus = "source" /\ Stage)
=============================================================================
