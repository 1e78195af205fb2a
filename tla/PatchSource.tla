----------------------------- MODULE PatchSource -----------------------------
(***************************************************************************)
(* A Python source as the patch applier sees it: a sequence of lines, of   *)
(* which only the structure the applier asks of the AST is kept. Lines     *)
(* before the first "def" are at module level; the lines of a function     *)
(* follow its "def"; a "main" line, when there is one, calls "run".        *)
(***************************************************************************)
EXTENDS Naturals, Sequences, SequencesExt, HookCatalog

(* by: the category whose patch inserted the line, "src" for the original.  *)
(* needs: a variable a hook line uses; ok: FALSE for a line that is not     *)
(* Python.                                                                  *)
Line(kind, name) == [kind |-> kind, name |-> name, type |-> "none", kwarg |-> "none",
                     needs |-> "none", ok |-> TRUE, by |-> "src"]
HookLine(type, kwarg, needs, by) ==
    [kind |-> "hook", name |-> "dispatch", type |-> type, kwarg |-> kwarg,
     needs |-> needs, ok |-> TRUE, by |-> by]

(* What is left of a file whose writing stopped half way: a text that ends
   in the middle of a statement. *)
TornLine == [Line("work", "none") EXCEPT !.ok = FALSE]
Torn == <<TornLine>>

(* ast.parse sees the syntax of each line; only the compiler also refuses a
   __future__ import that is not first. *)
Parses(s) == \A l \in Lines(s) : l.ok
Compiles(s) ==
    /\ Parses(s)
    /\ \A i, j \in DOMAIN s : i < j /\ s[j].kind = "future" => s[i].kind = "future"

Indices(s, kinds) == {i \in DOMAIN s : s[i].kind \in kinds}

LastImport(s) ==
    LET imports == Indices(s, {"future", "import"})
    IN  IF imports = {} THEN 0 ELSE Max(imports)

(***************************************************************************)
(* Where a change goes: a line to insert before, with whether the resolver *)
(* warned; line 0 is a LocationResolutionError.                            *)
(***************************************************************************)
At(line, warn) == [line |-> line, warn |-> warn]
Unresolved == At(0, FALSE)

AfterImports(s) == At(LastImport(s) + 1, LastImport(s) = 0)

(* A leading docstring is skipped when a statement follows it. *)
AfterDocstring(s, d) ==
    IF d + 2 <= Len(s) /\ s[d + 1].kind = "doc" /\ s[d + 2].kind \notin {"def", "main"}
    THEN d + 2 ELSE d + 1

Defs(s, f) == {i \in Indices(s, {"def"}) : s[i].name = f}
FunctionBodyStart(s, f) == IF Defs(s, f) = {} THEN 0 ELSE AfterDocstring(s, Min(Defs(s, f)))
FirstFunctionBody(s) ==
    IF Indices(s, {"def"}) = {} THEN 0 ELSE AfterDocstring(s, Min(Indices(s, {"def"})))

(* The line after the assignments the function starts with. *)
InlinePoint(s, f) ==
    IF Defs(s, f) = {} THEN 0
    ELSE LET start == FunctionBodyStart(s, f)
         IN  Min({i \in start..Len(s) + 1 :
                      i = Len(s) + 1 \/ s[i].kind # "local"})

BeforeFunctionBody(s, f) ==
    IF f = "none" THEN [AfterImports(s) EXCEPT !.warn = TRUE]
    ELSE IF Defs(s, f) # {} THEN At(FunctionBodyStart(s, f), FALSE)
    ELSE At(FirstFunctionBody(s), TRUE)
AroundFunction(s, f) ==
    LET body == BeforeFunctionBody(s, f)
    IN  IF body.line = 0 THEN Unresolved ELSE At(body.line, TRUE)
Inline(s, f) ==
    IF f = "none" THEN [AfterImports(s) EXCEPT !.warn = TRUE]
    ELSE IF Defs(s, f) # {} THEN At(InlinePoint(s, f), FALSE)
    ELSE AroundFunction(s, f)

Resolve(location, s, f) ==
    IF ~Parses(s) THEN Unresolved
    ELSE CASE location = "TOP_OF_FILE"          -> At(1, FALSE)
           [] location = "AFTER_IMPORTS"        -> AfterImports(s)
           [] location = "BEFORE_FUNCTION_BODY" -> BeforeFunctionBody(s, f)
           [] location = "AROUND_FUNCTION"      -> AroundFunction(s, f)
           [] location = "INLINE"               -> Inline(s, f)

(* The editor clamps the line to the file and never fails. *)
InsertBeforeLine(s, line, fragment) ==
    InsertAt(s, IF line > Len(s) THEN Len(s) + 1 ELSE line, fragment)

(***************************************************************************)
(* Imports. An unparseable source is taken to import nothing.              *)
(***************************************************************************)
ExistingImports(s) ==
    IF Parses(s) THEN {s[i].name : i \in Indices(s, {"import"})} ELSE {}
NewImports(s, candidates) == candidates \ ExistingImports(s)
InjectImports(s, names) ==
    LET after == IF Parses(s) THEN LastImport(s) ELSE 0
        block == SetToSeq({[Line("import", n) EXCEPT !.by = "imports"] : n \in names})
    IN  SubSeq(s, 1, after) \o block \o SubSeq(s, after + 1, Len(s))

(***************************************************************************)
(* Running the source as a script: module level, then, if a main line      *)
(* calls it, the body of run. A line fails at the first of: an import that *)
(* cannot be resolved, a hook before its import, a hook type that does not *)
(* exist, a variable that is not in scope.                                 *)
(***************************************************************************)
FirstDef(s) == LET d == Indices(s, {"def"}) IN IF d = {} THEN Len(s) + 1 ELSE Min(d)
ModuleLevel(s, i) == i < FirstDef(s) \/ s[i].kind = "main"
Executed(s, i) == ModuleLevel(s, i) \/ Indices(s, {"main"}) # {}
ImportedBy(s, i) == \E j \in 1..(i - 1) : s[j].kind = "import" /\ s[j].name = "awcp"
LocalBefore(s, i) == \E j \in FirstDef(s)..(i - 1) : s[j].kind = "local"

Failure(s, i, installed) ==
    IF s[i].kind = "import" /\ s[i].name \notin installed THEN "import_error"
    ELSE IF s[i].kind # "hook" THEN "none"
    ELSE IF ~(IF ModuleLevel(s, i) THEN ImportedBy(s, i) ELSE "awcp" \in ExistingImports(s))
         THEN "error"
    ELSE IF s[i].type \notin HookType THEN "error"
    ELSE IF s[i].needs = "exc" \/ (s[i].needs = "local" /\ ~LocalBefore(s, i)) THEN "error"
    ELSE "none"

(* How a run can end, and whether the text on its standard error mentions
   an import error. An import that is not caught is reported there by the
   interpreter; before another line fails, the agent's own code or a module
   it imports may have printed one that was caught. *)
Outcome(result, mentions) == [result |-> result, mentions |-> mentions]
MayPrint(s, i) == s[i].kind \in {"import", "local", "work", "hook", "main"}

RunsBefore(s, i, j) ==
    IF ModuleLevel(s, i) = ModuleLevel(s, j) THEN i < j ELSE ModuleLevel(s, i)
FailingLines(s, installed) ==
    {i \in DOMAIN s : Executed(s, i) /\ Failure(s, i, installed) # "none"}

(* The line a run ends at, when it does not get to the end. *)
Ends(s, i, installed) ==
    /\ i \in FailingLines(s, installed)
    /\ \A j \in FailingLines(s, installed) : j = i \/ RunsBefore(s, i, j)
Printed(s, i) == \E j \in DOMAIN s : Executed(s, j) /\ RunsBefore(s, j, i) /\ MayPrint(s, j)

(* The agent's own work may fail or not return. *)
Outcomes(s, installed) ==
    IF ~Compiles(s) THEN {Outcome("error", FALSE)}
    ELSE IF FailingLines(s, installed) # {}
    THEN UNION {IF Failure(s, i, installed) = "import_error"
                THEN {Outcome("import_error", TRUE)}
                ELSE {Outcome("error", mentions) : mentions \in {FALSE, Printed(s, i)}}
                : i \in {n \in DOMAIN s : Ends(s, n, installed)}}
    ELSE IF Indices(s, {"main"}) # {}
    THEN {Outcome("ok", FALSE), Outcome("timeout", FALSE)}
         \cup {Outcome("error", mentions) : mentions \in BOOLEAN}
    ELSE {Outcome("ok", FALSE)}
=============================================================================
