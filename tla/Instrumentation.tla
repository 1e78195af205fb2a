--------------------------- MODULE Instrumentation ---------------------------
(***************************************************************************)
(* run_instrumentation: one run reads every file of a repository, finds    *)
(* the hooks each one lacks, asks a language model for patches, applies    *)
(* them to the text, writes the file back, and only then runs it in a      *)
(* sandbox to give the verdict. The model's answers, the sandbox's outcome *)
(* and write errors are the environment. Files are processed in order, and *)
(* a later run works on what an earlier one wrote.                         *)
(***************************************************************************)
EXTENDS PatchSource

CONSTANTS
    Files,         \* the repository's .py files, in scan order (a sequence)
    Repositories,  \* the initial contents: a set of functions on the files
    Unreadable,    \* files that cannot be read or decoded
    Installed,     \* the modules the sandbox's interpreter can import
    ReplyKinds,    \* the kinds of answer the model gives for one hook
    MaxRuns        \* bound on the number of runs

FileSet == {Files[i] : i \in DOMAIN Files}
OriginalLine == {TornLine} \cup UNION {UNION {Lines(r[f]) : f \in FileSet} : r \in Repositories}

(* The scan meets each path once. *)
ASSUME FilesAssumption ==
    /\ Files \in Seq(FileSet)
    /\ \A i, n \in DOMAIN Files : Files[i] = Files[n] => i = n
ASSUME RepositoriesAssumption == Repositories \subseteq [FileSet -> Seq(OriginalLine)]
ASSUME ReplyAssumption ==
    ReplyKinds \subseteq {"right", "twice", "named", "wrong", "broken", "top", "local", "exc",
                          "empty", "bare", "alien"}

VARIABLES
    disk,       \* [file -> source]
    runs, dry,  \* runs started; whether this one is a dry run
    texts,      \* what the scan read
    todo,       \* places in Files of what this run still has to process
    phase, gaps, proposals,
    k, j,       \* proposals handled so far, changes of the next one applied
    before,     \* the text when that proposal was begun
    working, applied, warned, errors,
    summaries, pipelineErrors, scanErrors   \* the InstrumentationResult

result == <<summaries, pipelineErrors, scanErrors>>
patch == <<working, applied, warned, errors>>
pipelineVars == <<disk, runs, dry, texts, todo, phase, gaps, proposals, k, j, before,
          patch, result>>

file == Files[Min(todo)]
NoSummary == [status |-> "none", missing |-> {}, applied |-> {}, failed |-> {},
              warned |-> {}, written |-> FALSE, success |-> FALSE]

(***************************************************************************)
(* The model's answers: changes, each a fragment (one line), a location    *)
(* and a target function, and the imports the fragments need.              *)
(***************************************************************************)
Change(fragment, location, target) ==
    [fragment |-> fragment, location |-> location, target |-> target]
RightHook(c) == HookLine(TypeOf(c), KwargOf(c), "none", c)
NamedHook(c) == HookLine(c, KwargOf(c), "none", c)
AtBody(fragment) == Change(fragment, "BEFORE_FUNCTION_BODY", "run")

ReplyOf(kind, c) ==
    CASE kind = "right"  -> <<AtBody(RightHook(c))>>
      [] kind = "twice"  -> <<Change(RightHook(c), "AFTER_IMPORTS", "none"), AtBody(RightHook(c))>>
      [] kind = "named"  -> <<AtBody(NamedHook(c))>>
      [] kind = "wrong"  -> <<AtBody([RightHook("TASK_STARTED") EXCEPT !.by = c])>>
      [] kind = "broken" -> <<AtBody([NamedHook(c) EXCEPT !.ok = FALSE])>>
      [] kind = "top"    -> <<Change(RightHook(c), "TOP_OF_FILE", "none")>>
      [] kind = "local"  -> <<Change([RightHook(c) EXCEPT !.needs = "local"], "INLINE", "run")>>
      [] kind = "exc"    -> <<Change([RightHook(c) EXCEPT !.needs = "exc"], "AROUND_FUNCTION", "go")>>
      [] kind = "empty"  -> <<>>
      [] OTHER           -> <<AtBody(RightHook(c))>>   \* "bare", "alien"

(* The prompt asks for the import of the hook manager; a reply may leave it
   out, or name a module nobody has. *)
ImportsOf(kind) ==
    CASE kind = "bare"  -> {}
      [] kind = "alien" -> {"awcp", "nowhere"}
      [] OTHER          -> {"awcp"}

(* The built-in template, used when the provider fails. *)
MockReply(c) == <<AtBody(RightHook(c))>>
MockImports == {"awcp"}

(* "HookType.<CATEGORY>" occurs in the fragment, as a substring. *)
Names(fragment, c) ==
    fragment.type = c \/ (c = "APPROVAL" /\ fragment.type = "APPROVAL_REQUIRED")

SanitizeChange(ch) ==
    IF ch.fragment.needs = "exc" THEN [ch EXCEPT !.fragment.needs = "none"] ELSE ch

DeduplicateChanges(c, changes) ==
    LET matching == {i \in DOMAIN changes : Names(changes[i].fragment, c)}
    IN  IF matching = {} THEN changes ELSE <<SanitizeChange(changes[Min(matching)])>>

BatchHasWrongHookTypes(batch) ==
    \E i \in DOMAIN batch :
        \/ \E ch \in ToSet(batch[i].changes) : ~Names(ch.fragment, batch[i].category)
        \/ Len(batch[i].changes) > 1

Proposal(c, changes, imports) ==
    [category |-> c, changes |-> DeduplicateChanges(c, changes), imports |-> imports]

-----------------------------------------------------------------------------
PipelineInit ==
    /\ disk \in Repositories
    /\ runs = 0 /\ dry \in BOOLEAN
    /\ texts = disk /\ todo = {} /\ phase = "scan"
    /\ gaps = <<>> /\ proposals = <<>> /\ k = 0 /\ j = 0 /\ before = <<>>
    /\ working = <<>> /\ applied = {} /\ warned = {} /\ errors = {}
    /\ summaries = [f \in FileSet |-> NoSummary]
    /\ pipelineErrors = {} /\ scanErrors = {}

Scan ==
    /\ phase = "scan" /\ runs < MaxRuns
    /\ runs' = runs + 1
    /\ texts' = disk
    /\ todo' = {i \in DOMAIN Files : Files[i] \notin Unreadable}
    /\ scanErrors' = Unreadable
    /\ phase' = IF todo' = {} THEN "done" ELSE "analyze"
    /\ UNCHANGED <<disk, dry, gaps, proposals, k, j, before, patch, summaries,
                   pipelineErrors>>

(* The file is left: on to the next one, or the run is over. *)
NextFile ==
    /\ todo' = todo \ {Min(todo)}
    /\ phase' = IF todo' = {} THEN "done" ELSE "analyze"
    /\ gaps' = <<>> /\ proposals' = <<>> /\ k' = 0 /\ j' = 0 /\ before' = <<>>
    /\ working' = <<>> /\ applied' = {} /\ warned' = {} /\ errors' = {}

(* Mutant: an exception ends the whole run. *)
PipelineErrorAborts ==
    /\ pipelineErrors' = pipelineErrors \cup {file}
    /\ todo' = {} /\ phase' = "done"
    /\ UNCHANGED <<disk, runs, dry, texts, gaps, proposals, k, j, before, patch, summaries,
                   scanErrors>>
(* An exception in a file's stages is recorded and only that file is left. *)
PipelineError ==
    /\ pipelineErrors' = pipelineErrors \cup {file}
    /\ NextFile
    /\ UNCHANGED <<disk, runs, dry, texts, summaries, scanErrors>>

(* The missing hooks that what the agent does calls for, the most urgent first:
   each comes after as many as are more urgent. *)
GovernanceGaps(s) ==
    LET due == MissingHooks(s) \cap RequiredHooks(Capabilities(s))
        Sooner(c) == {d \in due : MoreUrgent(d, c)}
    IN  [i \in 1..Cardinality(due) |-> CHOOSE c \in due : Cardinality(Sooner(c)) = i - 1]

(* Nothing is applied to the text yet, and nothing needs undoing. *)
BeginApply(s) == working' = s /\ before' = s

(* Capabilities tolerate a syntax error; detection raises it. *)
Analyze ==
    /\ phase = "analyze"
    /\ IF ~Parses(texts[file]) THEN PipelineError
       ELSE /\ gaps' = GovernanceGaps(texts[file])
            /\ BeginApply(texts[file])
            /\ phase' = CASE Len(gaps') = 0 -> "apply"
                          [] Len(gaps') = 1 -> "each"
                          [] OTHER -> "batch"
            /\ UNCHANGED <<disk, runs, dry, texts, todo, proposals, k, j, applied, warned,
                           errors, result>>

(* One answer to that prompt: a list with an item for each gap. *)
BatchOf(reply) ==
    [i \in DOMAIN gaps |->
        Proposal(gaps[i], ReplyOf(reply[i], gaps[i]), ImportsOf(reply[i]))]

(* One prompt for all gaps; on a failure or a wrong hook type, one each. *)
GenerateBatch ==
    /\ phase = "batch"
    /\ \/ phase' = "each" /\ UNCHANGED proposals   \* provider or parse failure
       \/ \E reply \in [DOMAIN gaps -> ReplyKinds] :
            LET batch == BatchOf(reply)
            IN  IF BatchHasWrongHookTypes(batch)
                THEN phase' = "each" /\ UNCHANGED proposals
                ELSE phase' = "apply" /\ proposals' = batch
    /\ UNCHANGED <<disk, runs, dry, texts, todo, gaps, k, j, before, patch, result>>

GenerateForGap ==
    /\ phase = "each"
    /\ LET c == gaps[Len(proposals) + 1]
       IN  \/ \E kind \in ReplyKinds :
                proposals' = Append(proposals, Proposal(c, ReplyOf(kind, c), ImportsOf(kind)))
           \/ proposals' = Append(proposals, Proposal(c, MockReply(c), MockImports))
    /\ phase' = IF Len(proposals') = Len(gaps) THEN "apply" ELSE "each"
    /\ UNCHANGED <<disk, runs, dry, texts, todo, gaps, k, j, before, patch, result>>

(* Mutant: a change that cannot be placed does not undo the ones before it. *)
ApplyChangeNoRollback ==
    /\ phase = "apply" /\ k < Len(proposals) /\ j < Len(proposals[k + 1].changes)
    /\ LET p == proposals[k + 1]
           change == p.changes[j + 1]
           at == Resolve(change.location, working, change.target)
       IN  IF at.line = 0
           THEN /\ errors' = errors \cup {p.category}
                /\ k' = k + 1 /\ j' = 0
                /\ UNCHANGED <<working, warned>>
           ELSE /\ working' = InsertBeforeLine(working, at.line, change.fragment)
                /\ warned' = IF at.warn THEN warned \cup {p.category} ELSE warned
                /\ j' = j + 1
                /\ UNCHANGED <<k, errors>>
    /\ UNCHANGED <<disk, runs, dry, texts, todo, phase, gaps, proposals, before, applied, result>>
ApplyChange ==
    /\ phase = "apply" /\ k < Len(proposals) /\ j < Len(proposals[k + 1].changes)
    /\ LET p == proposals[k + 1]
           change == p.changes[j + 1]
           at == Resolve(change.location, working, change.target)
       IN  IF at.line = 0
           THEN /\ working' = before
                /\ errors' = errors \cup {p.category}
                /\ k' = k + 1 /\ j' = 0
                /\ UNCHANGED warned
           ELSE /\ working' = InsertBeforeLine(working, at.line, change.fragment)
                /\ warned' = IF at.warn THEN warned \cup {p.category} ELSE warned
                /\ j' = j + 1
                /\ UNCHANGED <<k, errors>>
    /\ UNCHANGED <<disk, runs, dry, texts, todo, phase, gaps, proposals, before, applied, result>>

(* After its last change, at once for a proposal without changes. *)
ProposalApplied ==
    /\ phase = "apply" /\ k < Len(proposals) /\ j = Len(proposals[k + 1].changes)
    /\ applied' = applied \cup {proposals[k + 1].category}
    /\ before' = working
    /\ k' = k + 1 /\ j' = 0
    /\ UNCHANGED <<disk, runs, dry, texts, todo, phase, gaps, proposals, working, warned,
                   errors, result>>

(* One pass of import injection, of what the applied proposals ask for, ends
   the applier. *)
PendingImports ==
    UNION {p.imports : p \in {q \in ToSet(proposals) : q.category \in applied}}
ApplyImports ==
    /\ phase = "apply" /\ k = Len(proposals)
    /\ working' = InjectImports(working, NewImports(working, PendingImports))
    /\ phase' = "redetect"
    /\ UNCHANGED <<disk, runs, dry, texts, todo, gaps, proposals, k, j, before, applied, warned,
                   errors, result>>

Changed == working # texts[file] /\ applied # {}

(* Mutant: an applied hook is looked for by its text, not by detection. *)
UndetectedByText(s) == {c \in applied : \A l \in Lines(s) : l.by # c}
Undetected(s) == {c \in applied : ~Detects(c, s)}
Redetect ==
    /\ phase = "redetect"
    /\ IF Changed /\ ~Parses(working) THEN PipelineError
       ELSE /\ warned' = IF Changed THEN warned \cup Undetected(working) ELSE warned
            /\ phase' = "write"
            /\ UNCHANGED <<disk, runs, dry, texts, todo, gaps, proposals, k, j, before, working,
                           applied, errors, result>>

(* The file is replaced before the sandbox has seen it. On an OSError it is
   as it was, or, when it was opened and the text could not be written, torn:
   only a part of the text is there. *)
WriteBack ==
    /\ phase = "write"
    /\ IF ~dry /\ Changed
       THEN \/ disk' = [disk EXCEPT ![file] = working] /\ UNCHANGED warned
            \/ /\ warned' = warned \cup {"write"}
               /\ disk' \in {disk, [disk EXCEPT ![file] = Torn]}
       ELSE UNCHANGED <<disk, warned>>
    /\ phase' = "validate"
    /\ UNCHANGED <<runs, dry, texts, todo, gaps, proposals, k, j, before, working, applied, errors,
                   result>>

(* The applied hooks that fail: all of them when the file does not parse,
   else those with a fragment that is not in it, and all of them when it was
   run and failed. A failure whose output mentions an import error does not
   count, and neither does a hook that is never reached. *)
ImportErrorOnly(outcome) == outcome.result \notin {"ok", "timeout"} /\ outcome.mentions
IsPresent(change) == change.fragment \in Lines(working)
MissingFragments ==
    {p \in ToSet(proposals) : p.category \in applied
        /\ \E ch \in ToSet(p.changes) : ~IsPresent(ch)}
FailedHooks(outcome) ==
    IF ~Parses(working) \/ (outcome.result # "ok" /\ ~ImportErrorOnly(outcome)) THEN applied
    ELSE {p.category : p \in MissingFragments}

(* Mutant: only a timeout fails. *)
VerdictNoExitCode(outcome) ==
    IF dry \/ applied = {} THEN "skipped"
    ELSE IF outcome.result # "timeout" THEN "passed" ELSE "failed"
(* Without an applied hook there is nothing to judge. *)
Verdict(outcome) ==
    IF dry \/ applied = {} THEN "skipped"
    ELSE IF FailedHooks(outcome) = {} THEN "passed" ELSE "failed"

Summary(outcome) ==
    [status |-> Verdict(outcome), missing |-> ToSet(gaps), applied |-> applied,
     failed |-> errors, warned |-> warned,
     written |-> ~dry /\ Changed /\ "write" \notin warned,
     success |-> Verdict(outcome) = "passed" \/ gaps = <<>>]

ValidateAndReport ==
    /\ phase = "validate"
    /\ \E outcome \in Outcomes(working, Installed) :
         summaries' = [summaries EXCEPT ![file] = Summary(outcome)]
    /\ NextFile
    /\ UNCHANGED <<disk, runs, dry, texts, pipelineErrors, scanErrors>>

(* The operator runs the pipeline again on the same repository. *)
Rerun ==
    /\ phase = "done" /\ runs < MaxRuns
    /\ phase' = "scan" /\ dry' \in BOOLEAN
    /\ summaries' = [f \in FileSet |-> NoSummary]
    /\ pipelineErrors' = {} /\ scanErrors' = {}
    /\ UNCHANGED <<disk, runs, texts, todo, gaps, proposals, k, j, before, patch>>

Stage == Scan \/ Analyze \/ GenerateBatch \/ GenerateForGap \/ ApplyChange
         \/ ProposalApplied \/ ApplyImports \/ Redetect \/ WriteBack \/ ValidateAndReport
PipelineNext == Stage \/ Rerun

(* The pipeline is one function: while it has a stage to run it runs it.
   Provider and sandbox calls return or raise. *)
PipelineSpec == PipelineInit /\ [][PipelineNext]_pipelineVars /\ WF_pipelineVars(Stage)
-----------------------------------------------------------------------------
(* A proposal is applied whole or not at all: the text holds every fragment
   of the applied proposals and none of the others'. *)
CountBy(s, c) == Cardinality({i \in DOMAIN s : s[i].by = c})
AllOrNothing ==
    phase \in {"apply", "redetect", "write", "validate"} /\ j = 0 =>
        \A i \in 1..k :
            LET c == proposals[i].category
            IN  CountBy(working, c) = CountBy(texts[file], c)
                    + IF c \in applied THEN Len(proposals[i].changes) ELSE 0

(* When a file is about to be replaced, every hook it lacked is now found in
   it, or is reported: as a warning, or as a proposal that failed. *)
GapsAccounted ==
    phase \in {"write", "validate"} /\ Changed =>
        \A c \in ToSet(gaps) : Detects(c, working) \/ c \in warned \cup errors

(* The verdict is about what is on the disk, although that was written before
   it was judged and by one run of several: a file reported as written and
   passed has a way to run to its end, or to one that mentions an import
   error. *)
PassedFilesJudged ==
    \A f \in FileSet :
        summaries[f].status = "passed" /\ summaries[f].written =>
            \E outcome \in Outcomes(disk[f], Installed) :
                outcome.result = "ok" \/ ImportErrorOnly(outcome)

(* A run that has begun ends, with each file in its summaries or in one of
   its error lists: a file that cannot be parsed, or a bad patch, stops only
   itself. *)
Handled(f) ==
    \/ summaries[f].status # "none"
    \/ f \in pipelineErrors
    \/ f \in scanErrors
EveryFileHandled ==
    runs > 0 ~> phase = "done" /\ \A f \in FileSet : Handled(f)
=============================================================================
