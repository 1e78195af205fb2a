----------------------- MODULE InstrumentationProofs -----------------------
(***************************************************************************)
(* The pipeline for any repository, any answers of the model and any       *)
(* number of runs: a proposal leaves all of its lines in the text or none, *)
(* every hook a file lacked is found in it afterwards or reported, and     *)
(* what was written and passed is what was judged.                         *)
(***************************************************************************)
EXTENDS Instrumentation, FiniteSetTheorems, SequenceTheorems, TLAPS

-----------------------------------------------------------------------------
(* Least and greatest of a set of numbers                                  *)

LEMMA MinExists ==
  ASSUME NEW S, S \subseteq Nat, S # {}
  PROVE  Min(S) \in S /\ \A i \in S : Min(S) <= i
<1>1. \E n \in S : \A i \in S : ~ (<<i, n>> \in OpToRel(<, Nat))
  BY NatLessThanWellFounded, WFMin
<1>2. PICK n \in S : \A i \in S : ~ (i < n)
  BY <1>1 DEF OpToRel
<1>3. \A i \in S : n <= i
  BY <1>2
<1>4. QED BY <1>3 DEF Min

LEMMA MaxExists ==
  ASSUME NEW S, S \subseteq Nat, S # {}, NEW n \in Nat, \A i \in S : i <= n
  PROVE  Max(S) \in S /\ \A i \in S : i <= Max(S)
<1> DEFINE bounds == {m \in Nat : \A i \in S : i <= m}
           least == Min(bounds)
<1>1. bounds \subseteq Nat /\ bounds # {}
  OBVIOUS
<1>2. least \in bounds /\ \A m \in bounds : least <= m
  <2> HIDE DEF bounds
  <2> QED BY <1>1, MinExists
<1> HIDE DEF least
<1>3. least \in S
  <2>1. SUFFICES ASSUME least \notin S PROVE FALSE
    OBVIOUS
  <2>2. \A i \in S : i < least
    BY <1>2, <2>1
  <2>3. least \in Nat /\ least - 1 \in Nat
    <3>1. PICK i \in S : i < least
      BY <2>2
    <3>2. QED BY <1>2, <3>1
  <2>4. least - 1 \in bounds
    BY <2>2, <2>3
  <2>5. QED BY <1>2, <2>3, <2>4
<1>4. \A i \in S : i <= least
  BY <1>2
<1>5. QED BY <1>3, <1>4 DEF Max

(* As many numbers as places they are moved to.                            *)
LEMMA ImageCount ==
  ASSUME NEW S, IsFiniteSet(S), NEW f, DOMAIN f = S,
         \A x, y \in S : f[x] = f[y] => x = y
  PROVE  LET T == {f[x] : x \in S}
         IN  IsFiniteSet(T) /\ Cardinality(T) = Cardinality(S)
<1> DEFINE T == {f[x] : x \in S}
           g == [x \in S |-> f[x]]
<1>1. g \in Bijection(S, T)
  BY DEF Bijection, Injection, Surjection, IsInjective
<1>2. QED BY <1>1, FS_Bijection DEF ExistsBijection

-----------------------------------------------------------------------------
(* Lines put into a source                                                 *)

(* A line is an original one, one a patch puts in, or the import.          *)
Fragment ==
  [kind : {"hook"}, name : {"dispatch"},
   type : HookCategory \cup {TypeOf(c) : c \in HookCategory},
   kwarg : {KwargOf(c) : c \in HookCategory},
   needs : {"none", "local", "exc"}, ok : BOOLEAN, by : HookCategory]
ImportName == {"awcp", "nowhere"}
ImportLine(n) == [Line("import", n) EXCEPT !.by = "imports"]
SourceLine == OriginalLine \cup Fragment \cup {ImportLine(n) : n \in ImportName}
Source == Seq(SourceLine)
LinesBy(s, c) == {i \in DOMAIN s : s[i].by = c}

LEMMA LinesByFinite ==
  ASSUME NEW s \in Source, NEW c
  PROVE  IsFiniteSet(LinesBy(s, c)) /\ CountBy(s, c) = Cardinality(LinesBy(s, c))
         /\ CountBy(s, c) \in Nat
<1>1. IsFiniteSet(1..Len(s)) /\ LinesBy(s, c) \subseteq 1..Len(s)
  BY FS_Interval DEF Source, LinesBy
<1>2. IsFiniteSet(LinesBy(s, c))
  BY <1>1, FS_Subset
<1>3. CountBy(s, c) = Cardinality(LinesBy(s, c))
  BY DEF CountBy, LinesBy
<1>4. QED BY <1>2, <1>3, FS_CardinalityType

Spliced(s, at, block) == SubSeq(s, 1, at) \o block \o SubSeq(s, at + 1, Len(s))

LEMMA SplicedLines ==
  ASSUME NEW s \in Source, NEW block \in Source, NEW at \in 0..Len(s)
  PROVE  LET t == Spliced(s, at, block)
         IN /\ t \in Source /\ Len(t) = Len(s) + Len(block)
            /\ \A i \in 1..at : t[i] = s[i]
            /\ \A i \in 1..Len(block) : t[at + i] = block[i]
            /\ \A i \in at + 1..Len(s) : t[Len(block) + i] = s[i]
<1> USE DEF Source
<1> DEFINE head == SubSeq(s, 1, at)
           tail == SubSeq(s, at + 1, Len(s))
<1>1. at \in Nat /\ Len(s) \in Nat /\ at <= Len(s) /\ Len(block) \in Nat
  OBVIOUS
<1>2. head \in Seq(SourceLine) /\ Len(head) = at /\ \A i \in 1..at : head[i] = s[i]
  BY <1>1
<1>3. /\ tail \in Seq(SourceLine) /\ Len(tail) = Len(s) - at
      /\ \A i \in 1..Len(s) - at : tail[i] = s[at + i]
  BY <1>1
<1> HIDE DEF head, tail
<1> DEFINE front == head \o block
<1>4. /\ front \in Seq(SourceLine) /\ Len(front) = at + Len(block)
      /\ \A i \in 1..at : front[i] = s[i]
      /\ \A i \in 1..Len(block) : front[at + i] = block[i]
  BY <1>1, <1>2, SMTT(40)
<1> HIDE DEF front
<1> DEFINE t == front \o tail
<1>5. /\ t \in Seq(SourceLine) /\ Len(t) = Len(front) + Len(tail)
      /\ \A i \in 1..Len(front) : t[i] = front[i]
      /\ \A i \in 1..Len(tail) : t[Len(front) + i] = tail[i]
  <2>1. front \in Seq(SourceLine) /\ tail \in Seq(SourceLine)
    BY <1>3, <1>4
  <2>2. QED BY <2>1
<1> HIDE DEF t
<1>6. \A i \in at + 1..Len(s) : t[Len(block) + i] = s[i]
  <2> TAKE i \in at + 1..Len(s)
  <2>1. i - at \in 1..Len(tail) /\ Len(front) + (i - at) = Len(block) + i /\ at + (i - at) = i
    BY <1>1, <1>3, <1>4
  <2>2. QED BY <1>3, <1>5, <2>1
<1>7. Spliced(s, at, block) = t
  BY DEF t, front, head, tail, Spliced
<1>8. QED BY <1>1, <1>3, <1>4, <1>5, <1>6, <1>7, SMTT(40)

(* A block adds its own lines and loses none.                              *)
LEMMA SplicedCount ==
  ASSUME NEW s \in Source, NEW block \in Source, NEW at \in 0..Len(s), NEW c
  PROVE  CountBy(Spliced(s, at, block), c) = CountBy(s, c) + CountBy(block, c)
<1> DEFINE t == Spliced(s, at, block)
           moved == [i \in LinesBy(s, c) |-> IF i <= at THEN i ELSE Len(block) + i]
           put == [i \in LinesBy(block, c) |-> at + i]
           old == {moved[i] : i \in LinesBy(s, c)}
           new == {put[i] : i \in LinesBy(block, c)}
<1>1. /\ t \in Source /\ Len(t) = Len(s) + Len(block)
      /\ \A i \in 1..at : t[i] = s[i]
      /\ \A i \in 1..Len(block) : t[at + i] = block[i]
      /\ \A i \in at + 1..Len(s) : t[Len(block) + i] = s[i]
  BY SplicedLines
<1>2. at \in Nat /\ Len(s) \in Nat /\ at <= Len(s) /\ Len(block) \in Nat
  BY DEF Source
<1>3. /\ DOMAIN s = 1..Len(s) /\ DOMAIN block = 1..Len(block)
      /\ DOMAIN t = 1..Len(s) + Len(block)
  BY <1>1 DEF Source
<1>4. LinesBy(s, c) \subseteq 1..Len(s) /\ LinesBy(block, c) \subseteq 1..Len(block)
  BY <1>3 DEF LinesBy
<1> HIDE DEF t
<1>5. LinesBy(t, c) = old \cup new
  <2>1. ASSUME NEW i \in LinesBy(t, c) PROVE i \in old \cup new
    <3>1. i \in 1..Len(s) + Len(block) /\ t[i].by = c
      BY <1>3 DEF LinesBy
    <3>2. CASE i <= at
      <4>1. i \in LinesBy(s, c) /\ moved[i] = i
        BY <1>1, <1>2, <1>3, <3>1, <3>2 DEF LinesBy
      <4>2. QED BY <4>1
    <3>3. CASE i > at /\ i <= at + Len(block)
      <4>1. i - at \in 1..Len(block) /\ at + (i - at) = i
        BY <1>2, <3>1, <3>3
      <4>2. i - at \in LinesBy(block, c) /\ put[i - at] = i
        BY <1>1, <1>3, <3>1, <4>1 DEF LinesBy
      <4>3. QED BY <4>2
    <3>4. CASE i > at + Len(block)
      <4>1. i - Len(block) \in at + 1..Len(s) /\ Len(block) + (i - Len(block)) = i
        BY <1>2, <3>1, <3>4
      <4>2. i - Len(block) \in LinesBy(s, c) /\ moved[i - Len(block)] = i
        BY <1>1, <1>2, <1>3, <3>1, <4>1 DEF LinesBy
      <4>3. QED BY <4>2
    <3>5. QED BY <1>2, <3>1, <3>2, <3>3, <3>4
  <2>2. ASSUME NEW i \in LinesBy(s, c) PROVE moved[i] \in LinesBy(t, c)
    BY <1>1, <1>2, <1>3, <1>4 DEF LinesBy
  <2>3. ASSUME NEW i \in LinesBy(block, c) PROVE put[i] \in LinesBy(t, c)
    BY <1>1, <1>2, <1>3, <1>4 DEF LinesBy
  <2>4. QED BY <2>1, <2>2, <2>3
<1>6. IsFiniteSet(old) /\ Cardinality(old) = CountBy(s, c)
  <2>1. \A x, y \in LinesBy(s, c) : moved[x] = moved[y] => x = y
    BY <1>2, <1>4
  <2> HIDE DEF moved
  <2>2. DOMAIN moved = LinesBy(s, c)
    BY DEF moved
  <2>3. QED BY <2>1, <2>2, ImageCount, LinesByFinite
<1>7. IsFiniteSet(new) /\ Cardinality(new) = CountBy(block, c)
  <2>1. \A x, y \in LinesBy(block, c) : put[x] = put[y] => x = y
    BY <1>2, <1>4
  <2> HIDE DEF put
  <2>2. DOMAIN put = LinesBy(block, c)
    BY DEF put
  <2>3. QED BY <2>1, <2>2, ImageCount, LinesByFinite
<1>8. old \cap new = {}
  <2>1. \A i \in LinesBy(s, c), n \in LinesBy(block, c) : moved[i] # put[n]
    BY <1>2, <1>4
  <2> HIDE DEF moved, put
  <2>2. QED BY <2>1
<1> HIDE DEF old, new
<1>9. Cardinality(old \cup new) = CountBy(s, c) + CountBy(block, c)
  <2>1. Cardinality(old \cup new) = Cardinality(old) + Cardinality(new) - Cardinality({})
    BY <1>6, <1>7, <1>8, FS_Union
  <2>2. QED BY <1>6, <1>7, <2>1, FS_EmptySet, LinesByFinite
<1>10. CountBy(t, c) = Cardinality(LinesBy(t, c))
  BY <1>1, LinesByFinite
<1>11. QED BY <1>5, <1>9, <1>10 DEF t

-----------------------------------------------------------------------------
(* Where a change goes                                                     *)

LEMMA IndicesFacts ==
  ASSUME NEW s \in Source, NEW kinds
  PROVE  /\ Indices(s, kinds) \subseteq 1..Len(s) /\ Len(s) \in Nat
         /\ Indices(s, kinds) \subseteq Nat
  BY DEF Source, Indices

LEMMA LastImportType ==
  ASSUME NEW s \in Source
  PROVE  LastImport(s) \in 0..Len(s)
<1> DEFINE imports == Indices(s, {"future", "import"})
<1>1. imports \subseteq 1..Len(s) /\ Len(s) \in Nat /\ imports \subseteq Nat
  BY IndicesFacts
<1> HIDE DEF imports
<1>2. CASE imports = {}
  BY <1>1, <1>2 DEF LastImport, imports
<1>3. CASE imports # {}
  <2>1. Len(s) \in Nat /\ \A i \in imports : i <= Len(s)
    BY <1>1
  <2>2. Max(imports) \in imports
    BY <1>1, <1>3, <2>1, MaxExists
  <2>3. QED BY <1>1, <1>3, <2>2 DEF LastImport, imports
<1>4. QED BY <1>2, <1>3

LEMMA BodyType ==
  ASSUME NEW s \in Source, NEW S, S \subseteq Indices(s, {"def"}), S # {}
  PROVE  AfterDocstring(s, Min(S)) \in 1..Len(s) + 1
<1>1. S \subseteq 1..Len(s) /\ S \subseteq Nat /\ Len(s) \in Nat
  BY IndicesFacts
<1>2. Min(S) \in 1..Len(s)
  BY <1>1, MinExists
<1>3. QED BY <1>1, <1>2 DEF AfterDocstring

LEMMA BodyStartType ==
  ASSUME NEW s \in Source, NEW f
  PROVE  /\ FunctionBodyStart(s, f) \in Nat /\ FirstFunctionBody(s) \in Nat
         /\ Defs(s, f) # {} => FunctionBodyStart(s, f) \in 1..Len(s) + 1
<1>1. Defs(s, f) \subseteq Indices(s, {"def"})
  BY DEF Defs
<1>2. FunctionBodyStart(s, f) = 0 \/ FunctionBodyStart(s, f) \in 1..Len(s) + 1
  BY <1>1, BodyType DEF FunctionBodyStart
<1>3. Defs(s, f) # {} => FunctionBodyStart(s, f) \in 1..Len(s) + 1
  BY <1>1, BodyType DEF FunctionBodyStart
<1>4. FirstFunctionBody(s) = 0 \/ FirstFunctionBody(s) \in 1..Len(s) + 1
  BY BodyType DEF FirstFunctionBody
<1>5. QED BY <1>2, <1>3, <1>4, IndicesFacts

LEMMA InlinePointType ==
  ASSUME NEW s \in Source, NEW f, Defs(s, f) # {}
  PROVE  InlinePoint(s, f) \in Nat
<1> DEFINE start == FunctionBodyStart(s, f)
           after == {i \in start..Len(s) + 1 : i = Len(s) + 1 \/ s[i].kind # "local"}
<1>1. start \in 1..Len(s) + 1 /\ Len(s) \in Nat
  BY BodyStartType, IndicesFacts
<1> HIDE DEF start
<1>2. Len(s) + 1 \in after /\ after \subseteq Nat
  BY <1>1
<1> HIDE DEF after
<1>3. Min(after) \in Nat
  BY <1>2, MinExists
<1>4. QED BY <1>3 DEF InlinePoint, after, start

Location == {"TOP_OF_FILE", "AFTER_IMPORTS", "BEFORE_FUNCTION_BODY", "AROUND_FUNCTION", "INLINE"}
AnyChange == [fragment : Fragment, location : Location, target : {"none", "run", "go"}]

LEMMA ResolveType ==
  ASSUME NEW s \in Source, NEW location \in Location, NEW f
  PROVE  Resolve(location, s, f).line \in Nat
<1>1. AfterImports(s).line \in Nat /\ [AfterImports(s) EXCEPT !.warn = TRUE].line \in Nat
  <2>1. LastImport(s) \in Nat
    BY LastImportType
  <2>2. QED BY <2>1 DEF AfterImports, At
<1>2. BeforeFunctionBody(s, f).line \in Nat
  <2>1. FunctionBodyStart(s, f) \in Nat /\ FirstFunctionBody(s) \in Nat
    BY BodyStartType
  <2>2. QED BY <1>1, <2>1 DEF BeforeFunctionBody, At
<1>3. AroundFunction(s, f).line \in Nat
  BY <1>2 DEF AroundFunction, At, Unresolved
<1>4. Inline(s, f).line \in Nat
  <2>1. CASE f = "none"
    BY <1>1, <2>1 DEF Inline
  <2>2. CASE f # "none" /\ Defs(s, f) # {}
    BY <2>2, InlinePointType DEF Inline, At
  <2>3. CASE f # "none" /\ Defs(s, f) = {}
    BY <1>3, <2>3 DEF Inline
  <2>4. QED BY <2>1, <2>2, <2>3
<1>5. CASE ~Parses(s)
  BY <1>5 DEF Resolve, Unresolved, At
<1>6. CASE Parses(s) /\ location = "TOP_OF_FILE"
  BY <1>6 DEF Resolve, At
<1>7. CASE Parses(s) /\ location # "TOP_OF_FILE"
  BY <1>1, <1>2, <1>3, <1>4, <1>7 DEF Resolve, Location
<1>8. QED BY <1>5, <1>6, <1>7

(* One line more, and it is the one that was put in.                       *)
LEMMA InsertedCount ==
  ASSUME NEW s \in Source, NEW line \in Nat \ {0}, NEW fragment \in SourceLine
  PROVE  LET t == InsertBeforeLine(s, line, fragment)
         IN /\ t \in Source
            /\ \A c : CountBy(t, c) = CountBy(s, c) + IF fragment.by = c THEN 1 ELSE 0
<1> DEFINE at == IF line > Len(s) THEN Len(s) ELSE line - 1
<1>1. Len(s) \in Nat /\ at \in 0..Len(s) /\ at \in Nat
  BY DEF Source
<1>2. (IF line > Len(s) THEN Len(s) + 1 ELSE line) = at + 1
  BY <1>1
<1> HIDE DEF at
<1>3. InsertBeforeLine(s, line, fragment) = InsertAt(s, at + 1, fragment)
  BY <1>2 DEF InsertBeforeLine
<1>4. InsertAt(s, at + 1, fragment) = Spliced(s, at, <<fragment>>)
  <2>1. (at + 1) - 1 = at
    BY <1>1
  <2>2. QED BY <2>1 DEF InsertAt, Spliced
<1>5. <<fragment>> \in Source
  BY DEF Source
<1>6. ASSUME NEW c PROVE CountBy(<<fragment>>, c) = IF fragment.by = c THEN 1 ELSE 0
  <2>1. LinesBy(<<fragment>>, c) = IF fragment.by = c THEN {1} ELSE {}
    BY DEF LinesBy
  <2>2. QED BY <1>5, <2>1, LinesByFinite, FS_EmptySet, FS_Singleton
<1> DEFINE t == InsertBeforeLine(s, line, fragment)
<1>7. t = Spliced(s, at, <<fragment>>)
  BY <1>3, <1>4
<1>8. t \in Source
  BY <1>1, <1>5, <1>7, SplicedLines
<1>9. \A c : CountBy(t, c) = CountBy(s, c) + CountBy(<<fragment>>, c)
  BY <1>1, <1>5, <1>7, SplicedCount
<1> HIDE DEF t
<1>10. \A c : CountBy(t, c) = CountBy(s, c) + IF fragment.by = c THEN 1 ELSE 0
  BY <1>6, <1>9
<1>11. QED BY <1>8, <1>10 DEF t

LEMMA SeqOfSet ==
  ASSUME NEW S, IsFiniteSet(S)
  PROVE  SetToSeq(S) \in Seq(S)
<1>1. Cardinality(S) \in Nat /\ ExistsBijection(1..Cardinality(S), S)
  BY FS_CardinalityType
<1>2. PICK f \in Bijection(1..Cardinality(S), S) : TRUE
  BY <1>1 DEF ExistsBijection
<1>3. f \in [1..Cardinality(S) -> S] /\ IsInjective(f)
  BY DEF Bijection, Injection
<1>4. SetToSeq(S) \in [1..Cardinality(S) -> S]
  BY <1>3 DEF SetToSeq
<1>5. QED BY <1>1, <1>4

(* The imports come from no category.                                      *)
LEMMA ImportsCount ==
  ASSUME NEW s \in Source, NEW names, names \subseteq ImportName
  PROVE  LET t == InjectImports(s, names)
         IN /\ t \in Source
            /\ \A c : c # "imports" => CountBy(t, c) = CountBy(s, c)
<1> DEFINE lines == {[Line("import", n) EXCEPT !.by = "imports"] : n \in names}
           block == SetToSeq(lines)
           at == IF Parses(s) THEN LastImport(s) ELSE 0
<1>1. at \in 0..Len(s)
  BY LastImportType, IndicesFacts
<1>2. lines \subseteq {ImportLine("awcp"), ImportLine("nowhere")}
  BY DEF ImportLine, ImportName
<1> HIDE DEF lines
<1>3. IsFiniteSet(lines)
  <2>1. IsFiniteSet({ImportLine("awcp"), ImportLine("nowhere")})
    <3>1. IsFiniteSet({ImportLine("awcp")}) /\ IsFiniteSet({ImportLine("nowhere")})
      BY FS_Singleton, Zenon
    <3>2. {ImportLine("awcp"), ImportLine("nowhere")}
            = {ImportLine("awcp")} \cup {ImportLine("nowhere")}
      OBVIOUS
    <3>3. QED BY <3>1, <3>2, FS_Union
  <2>2. QED BY <1>2, <2>1, FS_Subset
<1>4. \A n \in ImportName : ImportLine(n) \in SourceLine /\ ImportLine(n).by = "imports"
  BY DEF ImportLine, SourceLine, Line
<1>5. block \in Seq(lines)
  BY <1>3, SeqOfSet
<1> HIDE DEF block
<1>6. block \in Source /\ \A i \in DOMAIN block : block[i].by = "imports"
  <2>1. lines \subseteq SourceLine /\ \A l \in lines : l.by = "imports"
    BY <1>2, <1>4 DEF ImportName
  <2>2. QED BY <1>5, <2>1 DEF Source
<1>7. ASSUME NEW c, c # "imports" PROVE CountBy(block, c) = 0
  <2>1. LinesBy(block, c) = {}
    BY <1>6, <1>7 DEF LinesBy
  <2>2. QED BY <1>6, <2>1, LinesByFinite, FS_EmptySet
<1> HIDE DEF at
<1>8. InjectImports(s, names) = Spliced(s, at, block)
  BY DEF InjectImports, Spliced, at, block, lines
<1>9. \A c : c # "imports" => CountBy(Spliced(s, at, block), c) = CountBy(s, c)
  <2> TAKE c
  <2> HAVE c # "imports"
  <2>1. CountBy(s, c) \in Nat
    BY LinesByFinite
  <2>2. QED BY <1>1, <1>6, <1>7, <2>1, SplicedCount
<1>10. QED BY <1>1, <1>6, <1>8, <1>9, SplicedLines

-----------------------------------------------------------------------------
(* The order of the gaps                                                   *)

LEMMA Catalog ==
  /\ DOMAIN CategoryOrder = 1..16 /\ Len(CategoryOrder) = 16
  /\ HookCategory = {CategoryOrder[i] : i \in 1..16}
  /\ IsFiniteSet(HookCategory) /\ "imports" \notin HookCategory
<1>1. Len(CategoryOrder) = 16
  BY DEF CategoryOrder
<1>2. DOMAIN CategoryOrder = 1..16
  BY DEF CategoryOrder
<1>3. HookCategory = {CategoryOrder[i] : i \in 1..16}
  BY <1>1 DEF HookCategory
<1>4. IsFiniteSet(HookCategory)
  <2> DEFINE f == [i \in 1..16 |-> CategoryOrder[i]]
  <2>1. f \in Surjection(1..16, HookCategory)
    BY <1>3 DEF Surjection
  <2>2. IsFiniteSet(1..16)
    <3>1. 1 \in Int /\ 16 \in Int
      OBVIOUS
    <3>2. QED BY <3>1, FS_Interval, Zenon
  <2>3. QED BY <2>1, <2>2, FS_Surjection
<1>5. \A i \in 1..16 : CategoryOrder[i] # "imports"
  BY DEF CategoryOrder
<1>6. QED BY <1>1, <1>2, <1>3, <1>4, <1>5

LEMMA PositionFacts ==
  ASSUME NEW c \in HookCategory
  PROVE  Position(c) \in 1..16 /\ CategoryOrder[Position(c)] = c
<1>1. \E i \in DOMAIN CategoryOrder : CategoryOrder[i] = c
  BY Catalog
<1>2. QED BY <1>1, Catalog DEF Position

LEMMA RiskFacts ==
  ASSUME NEW c \in HookCategory
  PROVE  Risk(c) = <<Risk(c)[1], Risk(c)[2]>> /\ Risk(c)[1] \in Nat /\ Risk(c)[2] \in Nat
<1>1. Position(c) \in 1..16 /\ CategoryOrder[Position(c)] = c
  BY PositionFacts
<1>2. CASE Position(c) <= 5
  <2>1. c \in {"TASK_STARTED", "TASK_COMPLETED", "TASK_FAILED", "LLM_CALL", "SYNTHESIZE"}
    BY <1>1, <1>2 DEF CategoryOrder
  <2>2. QED BY <1>1, <1>2, <2>1 DEF Risk, LifecycleRisk
<1>3. CASE Position(c) > 5 /\ Position(c) <= 10
  <2>1. c \in {"TOOL_CALL", "WEB_SEARCH", "TOKEN_USAGE", "BUDGET_WARN", "BUDGET_EXHAUSTED"}
    BY <1>1, <1>3 DEF CategoryOrder
  <2>2. QED BY <1>1, <1>3, <2>1 DEF Risk, UsageRisk
<1>4. CASE Position(c) > 10
  <2>1. c \in {"OBSERVABILITY", "POLICY", "APPROVAL", "FEATURE_FLAG", "RECOVERY", "DEGRADATION"}
    BY <1>1, <1>4 DEF CategoryOrder
  <2>2. QED BY <1>1, <1>4, <2>1 DEF Risk, GovernanceRisk
<1>5. QED BY <1>1, <1>2, <1>3, <1>4

(* Urgency is a strict order of the categories, and a total one.           *)
LEMMA UrgencyOrder ==
  /\ \A a \in HookCategory : ~MoreUrgent(a, a)
  /\ \A a, b, c \in HookCategory : MoreUrgent(a, b) /\ MoreUrgent(b, c) => MoreUrgent(a, c)
  /\ \A a, b \in HookCategory : a # b => MoreUrgent(a, b) \/ MoreUrgent(b, a)
<1>1. \A a \in HookCategory :
        /\ Position(a) \in Nat /\ Risk(a)[1] \in Nat /\ Risk(a)[2] \in Nat
        /\ Risk(a) = <<Risk(a)[1], Risk(a)[2]>>
  BY PositionFacts, RiskFacts
<1>2. \A a, b \in HookCategory : a # b => Position(a) # Position(b)
  BY PositionFacts
<1>3. \A a, b \in HookCategory :
        Risk(a)[1] = Risk(b)[1] /\ Risk(a)[2] = Risk(b)[2] => Risk(a) = Risk(b)
  BY <1>1
<1>4. \A a \in HookCategory : ~MoreUrgent(a, a)
  BY <1>1 DEF MoreUrgent
<1>5. \A a, b, c \in HookCategory : MoreUrgent(a, b) /\ MoreUrgent(b, c) => MoreUrgent(a, c)
  BY <1>1 DEF MoreUrgent
<1>6. \A a, b \in HookCategory : a # b => MoreUrgent(a, b) \/ MoreUrgent(b, a)
  BY <1>1, <1>2, <1>3 DEF MoreUrgent
<1>7. QED BY <1>4, <1>5, <1>6

Sooner(S, c) == {d \in S : MoreUrgent(d, c)}

(* In a set of categories every number of more urgent ones occurs.         *)
LEMMA EveryRank ==
  ASSUME NEW S, S \subseteq HookCategory, NEW n \in 0..Cardinality(S) - 1
  PROVE  \E c \in S : Cardinality(Sooner(S, c)) = n
<1> DEFINE rank == [c \in S |-> Cardinality(Sooner(S, c))]
           ranks == 0..Cardinality(S) - 1
<1>1. IsFiniteSet(S) /\ Cardinality(S) \in Nat
  BY Catalog, FS_Subset, FS_CardinalityType
<1>2. \A c \in S : IsFiniteSet(Sooner(S, c)) /\ Cardinality(Sooner(S, c)) \in Nat
  <2> TAKE c \in S
  <2>1. Sooner(S, c) \subseteq S
    BY DEF Sooner
  <2>2. QED BY <1>1, <2>1, FS_Subset, FS_CardinalityType
<1>3. \A c \in S : rank[c] \in ranks
  <2> TAKE c \in S
  <2>1. Sooner(S, c) \subseteq S /\ c \notin Sooner(S, c)
    BY UrgencyOrder DEF Sooner
  <2>2. Sooner(S, c) \in SUBSET S /\ Sooner(S, c) # S
    BY <2>1
  <2>3. Cardinality(Sooner(S, c)) <= Cardinality(S) /\ Cardinality(Sooner(S, c)) # Cardinality(S)
    BY <1>1, <2>2, FS_Subset
  <2>4. QED BY <1>1, <1>2, <2>3
<1>4. ASSUME NEW a \in S, NEW b \in S, MoreUrgent(a, b)
      PROVE  rank[a] # rank[b]
  <2>1. Sooner(S, a) \subseteq Sooner(S, b) /\ a \in Sooner(S, b) /\ a \notin Sooner(S, a)
    BY <1>4, UrgencyOrder DEF Sooner
  <2>2. Sooner(S, a) \in SUBSET Sooner(S, b) /\ Sooner(S, a) # Sooner(S, b)
    BY <2>1
  <2>3. QED BY <1>2, <2>2, FS_Subset
<1>5. \A a, b \in S : rank[a] = rank[b] => a = b
  BY <1>4, UrgencyOrder
<1>6. rank \in Injection(S, ranks)
  BY <1>3, <1>5 DEF Injection, IsInjective
<1>7. IsFiniteSet(ranks) /\ Cardinality(ranks) = Cardinality(S)
  <2>1. Cardinality(S) - 1 \in Int /\ 0 \in Int
    BY <1>1
  <2>2. IsFiniteSet(ranks)
        /\ Cardinality(ranks) = IF 0 > Cardinality(S) - 1 THEN 0 ELSE Cardinality(S) - 1 - 0 + 1
    BY <2>1, FS_Interval
  <2>3. QED BY <1>1, <2>2
<1> HIDE DEF rank, ranks
<1>8. rank \in Surjection(S, ranks)
  BY <1>6, <1>7, FS_Injection
<1>9. \E c \in S : rank[c] = n
  BY <1>8 DEF Surjection, ranks
<1>10. QED BY <1>9 DEF rank

LEMMA GapsType ==
  ASSUME NEW s
  PROVE  LET found == GovernanceGaps(s)
         IN /\ found \in Seq(HookCategory)
            /\ \A i, m \in DOMAIN found : found[i] = found[m] => i = m
<1> DEFINE due == MissingHooks(s) \cap RequiredHooks(Capabilities(s))
           found == GovernanceGaps(s)
<1>1. due \subseteq HookCategory
  BY DEF MissingHooks
<1>2. IsFiniteSet(due) /\ Cardinality(due) \in Nat
  BY <1>1, Catalog, FS_Subset, FS_CardinalityType
<1>3. found = [i \in 1..Cardinality(due) |->
                 CHOOSE c \in due : Cardinality(Sooner(due, c)) = i - 1]
  BY DEF GovernanceGaps, Sooner
<1> HIDE DEF due, found
<1>4. \A i \in 1..Cardinality(due) :
        found[i] \in due /\ Cardinality(Sooner(due, found[i])) = i - 1
  <2> TAKE i \in 1..Cardinality(due)
  <2>1. i - 1 \in 0..Cardinality(due) - 1
    BY <1>2
  <2>2. \E c \in due : Cardinality(Sooner(due, c)) = i - 1
    BY <1>1, <2>1, EveryRank
  <2>3. QED BY <1>3, <2>2
<1>5. found \in Seq(HookCategory) /\ DOMAIN found = 1..Cardinality(due)
  <2>1. DOMAIN found = 1..Cardinality(due) /\ \A i \in 1..Cardinality(due) : found[i] \in HookCategory
    BY <1>1, <1>3, <1>4
  <2>2. found \in [1..Cardinality(due) -> HookCategory]
    BY <1>3, <2>1
  <2>3. QED BY <1>2, <2>1, <2>2
<1>6. \A i, m \in DOMAIN found : found[i] = found[m] => i = m
  BY <1>2, <1>4, <1>5
<1>7. QED BY <1>5, <1>6 DEF found

-----------------------------------------------------------------------------
(* What the model proposes                                                 *)

ChangesOf(c) == {s \in Seq(AnyChange) : \A i \in DOMAIN s : s[i].fragment.by = c}
AnyProposal ==
  UNION {[category : {c}, changes : ChangesOf(c), imports : SUBSET ImportName] : c \in HookCategory}

LEMMA HookFragments ==
  ASSUME NEW c \in HookCategory
  PROVE  /\ RightHook(c) \in Fragment /\ RightHook(c).by = c
         /\ NamedHook(c) \in Fragment /\ NamedHook(c).by = c
<1>1. KwargOf(c) \in {KwargOf(d) : d \in HookCategory} /\ TypeOf(c) \in {TypeOf(d) : d \in HookCategory}
  OBVIOUS
<1>2. QED BY <1>1 DEF RightHook, NamedHook, HookLine, Fragment

LEMMA OneChange ==
  ASSUME NEW c \in HookCategory, NEW fragment \in Fragment, fragment.by = c,
         NEW location \in Location, NEW target \in {"none", "run", "go"}
  PROVE  /\ Change(fragment, location, target) \in AnyChange
         /\ Change(fragment, location, target).fragment.by = c
         /\ <<Change(fragment, location, target)>> \in ChangesOf(c)
<1>1. /\ Change(fragment, location, target) \in AnyChange
      /\ Change(fragment, location, target).fragment.by = c
  BY DEF Change, AnyChange
<1>2. QED BY <1>1 DEF ChangesOf

LEMMA ReplyType ==
  ASSUME NEW c \in HookCategory
  PROVE  /\ \A kind \in ReplyKinds : ReplyOf(kind, c) \in ChangesOf(c)
         /\ \A kind \in ReplyKinds : ImportsOf(kind) \subseteq ImportName
         /\ MockReply(c) \in ChangesOf(c) /\ MockImports \subseteq ImportName
<1> DEFINE right == RightHook(c)
           named == NamedHook(c)
           wrong == [RightHook("TASK_STARTED") EXCEPT !.by = c]
<1>1. /\ right \in Fragment /\ right.by = c /\ named \in Fragment /\ named.by = c
      /\ RightHook("TASK_STARTED") \in Fragment
  <2>1. "TASK_STARTED" \in HookCategory
    BY Catalog DEF CategoryOrder
  <2>2. QED BY <2>1, HookFragments
<1>2. wrong \in Fragment /\ wrong.by = c
  BY <1>1 DEF Fragment
<1> HIDE DEF right, named, wrong
<1>3. /\ [named EXCEPT !.ok = FALSE] \in Fragment /\ [named EXCEPT !.ok = FALSE].by = c
      /\ [right EXCEPT !.needs = "local"] \in Fragment /\ [right EXCEPT !.needs = "local"].by = c
      /\ [right EXCEPT !.needs = "exc"] \in Fragment /\ [right EXCEPT !.needs = "exc"].by = c
  BY <1>1 DEF Fragment
<1>4. /\ <<AtBody(right)>> \in ChangesOf(c) /\ <<AtBody(named)>> \in ChangesOf(c)
      /\ <<AtBody(wrong)>> \in ChangesOf(c)
      /\ <<AtBody([named EXCEPT !.ok = FALSE])>> \in ChangesOf(c)
  BY <1>1, <1>2, <1>3, OneChange DEF AtBody, Location
<1>5. /\ <<Change(right, "TOP_OF_FILE", "none")>> \in ChangesOf(c)
      /\ <<Change([right EXCEPT !.needs = "local"], "INLINE", "run")>> \in ChangesOf(c)
      /\ <<Change([right EXCEPT !.needs = "exc"], "AROUND_FUNCTION", "go")>> \in ChangesOf(c)
  BY <1>1, <1>3, OneChange DEF Location
<1>6. <<Change(right, "AFTER_IMPORTS", "none"), AtBody(right)>> \in ChangesOf(c)
  <2>1. /\ Change(right, "AFTER_IMPORTS", "none") \in AnyChange
        /\ Change(right, "AFTER_IMPORTS", "none").fragment.by = c
        /\ AtBody(right) \in AnyChange /\ AtBody(right).fragment.by = c
    BY <1>1, OneChange DEF AtBody, Location
  <2>2. QED BY <2>1 DEF ChangesOf
<1>7. <<>> \in ChangesOf(c)
  BY DEF ChangesOf
<1>8. MockReply(c) \in ChangesOf(c)
  BY <1>4 DEF MockReply, right
<1>9. ASSUME NEW kind \in ReplyKinds PROVE ReplyOf(kind, c) \in ChangesOf(c)
  <2>1. kind \in {"right", "twice", "named", "wrong", "broken", "top", "local", "exc", "empty",
                   "bare", "alien"}
    BY ReplyAssumption
  <2>2. QED BY <1>4, <1>5, <1>6, <1>7, <2>1 DEF ReplyOf, right, named, wrong
<1>10. MockImports \subseteq ImportName /\ \A kind \in ReplyKinds : ImportsOf(kind) \subseteq ImportName
  BY DEF MockImports, ImportsOf, ImportName
<1>11. QED BY <1>8, <1>9, <1>10

LEMMA ProposalType ==
  ASSUME NEW c \in HookCategory, NEW changes \in ChangesOf(c),
         NEW imports, imports \subseteq ImportName
  PROVE  /\ Proposal(c, changes, imports) \in AnyProposal
         /\ Proposal(c, changes, imports).category = c
<1> DEFINE matching == {i \in DOMAIN changes : Names(changes[i].fragment, c)}
           kept == DeduplicateChanges(c, changes)
<1>1. DOMAIN changes \subseteq Nat
  BY DEF ChangesOf
<1>2. kept \in ChangesOf(c)
  <2>1. CASE matching = {}
    BY <2>1 DEF DeduplicateChanges
  <2>2. CASE matching # {}
    <3> DEFINE first == changes[Min(matching)]
    <3>1. Min(matching) \in matching
      BY <1>1, <2>2, MinExists
    <3>2. first \in AnyChange /\ first.fragment.by = c
      BY <3>1 DEF ChangesOf
    <3> HIDE DEF first
    <3>3. first.fragment \in Fragment
      BY <3>2 DEF AnyChange
    <3>4. [first.fragment EXCEPT !.needs = "none"] \in Fragment
          /\ [first.fragment EXCEPT !.needs = "none"].by = c
      BY <3>2, <3>3 DEF Fragment
    <3> DEFINE clean == [first.fragment EXCEPT !.needs = "none"]
    <3> HIDE DEF clean
    <3>5. [first EXCEPT !.fragment = clean] \in AnyChange
          /\ [first EXCEPT !.fragment = clean].fragment.by = c
      BY <3>2, <3>4 DEF AnyChange, clean
    <3>6. SanitizeChange(first) \in AnyChange /\ SanitizeChange(first).fragment.by = c
      BY <3>2, <3>5 DEF SanitizeChange, clean
    <3>7. kept = <<SanitizeChange(first)>>
      BY <2>2 DEF DeduplicateChanges, first
    <3> HIDE DEF kept
    <3>8. QED BY <3>6, <3>7 DEF ChangesOf
  <2>3. QED BY <2>1, <2>2
<1> HIDE DEF kept
<1>3. [category |-> c, changes |-> kept, imports |-> imports] \in AnyProposal
  BY <1>2 DEF AnyProposal
<1>4. QED BY <1>3 DEF Proposal, kept

-----------------------------------------------------------------------------
(* Types, and how far the pipeline has come                                *)

Fresh == {"scan", "analyze", "done"}
Asking == {"batch", "each"}
Patched == {"redetect", "write", "validate"}

StoreTypeOK ==
  /\ disk \in [FileSet -> Source] /\ texts \in [FileSet -> Source]
  /\ DOMAIN summaries = FileSet /\ todo \subseteq DOMAIN Files
  /\ phase \in Fresh \cup Asking \cup {"apply"} \cup Patched
  /\ phase \notin {"scan", "done"} => todo # {}

PatchTypeOK ==
  /\ gaps \in Seq(HookCategory)
  /\ \A i, m \in DOMAIN gaps : gaps[i] = gaps[m] => i = m
  /\ proposals \in Seq(AnyProposal)
  /\ k \in Nat /\ j \in Nat /\ working \in Source /\ before \in Source

(* Which proposals there are, and how many of them are dealt with.         *)
Progress ==
  /\ Len(proposals) <= Len(gaps) /\ \A i \in DOMAIN proposals : proposals[i].category = gaps[i]
  /\ k <= Len(proposals)
  /\ j = 0 \/ (k < Len(proposals) /\ j <= Len(proposals[k + 1].changes))
  /\ phase \in Fresh => gaps = <<>>
  /\ phase \in Fresh \cup {"batch"} => proposals = <<>>
  /\ phase \in Asking => Len(proposals) < Len(gaps) /\ working = texts[file] /\ before = working
  /\ phase \in Fresh \cup Asking => k = 0 /\ j = 0 /\ applied = {}
  /\ phase \in {"apply"} \cup Patched => Len(proposals) = Len(gaps)
  /\ phase \in Patched => k = Len(proposals) /\ j = 0

PipeInv == StoreTypeOK /\ PatchTypeOK /\ Progress

LEMMA FragmentIsLine ==
  Fragment \subseteq SourceLine /\ <<>> \in Source /\ Torn \in Source
  BY DEF SourceLine, Source, Torn, OriginalLine

LEMMA PlaceOfFile ==
  ASSUME StoreTypeOK, phase \notin {"scan", "done"}
  PROVE  Min(todo) \in todo /\ file \in FileSet /\ texts[file] \in Source
<1>1. todo \subseteq Nat /\ todo # {}
  BY FilesAssumption DEF StoreTypeOK
<1>2. Min(todo) \in todo
  BY <1>1, MinExists
<1>3. file \in FileSet
  BY <1>2 DEF StoreTypeOK, FileSet, file
<1>4. QED BY <1>2, <1>3 DEF StoreTypeOK

(* The proposal the applier has in hand.                                   *)
LEMMA InHand ==
  ASSUME PatchTypeOK, Progress, k < Len(proposals)
  PROVE  /\ k + 1 \in DOMAIN proposals /\ k + 1 \in DOMAIN gaps
         /\ gaps[k + 1] \in HookCategory /\ proposals[k + 1].category = gaps[k + 1]
         /\ proposals[k + 1].changes \in Seq(AnyChange)
         /\ Len(proposals[k + 1].changes) \in Nat
         /\ \A i \in DOMAIN proposals[k + 1].changes :
              LET change == proposals[k + 1].changes[i]
              IN  /\ change.fragment \in Fragment /\ change.fragment.by = gaps[k + 1]
                  /\ change.location \in Location
<1> DEFINE p == proposals[k + 1]
<1>1. k + 1 \in DOMAIN proposals /\ k + 1 \in DOMAIN gaps
  BY DEF PatchTypeOK, Progress
<1>2. gaps[k + 1] \in HookCategory /\ p.category = gaps[k + 1] /\ p \in AnyProposal
  BY <1>1 DEF PatchTypeOK, Progress
<1> HIDE DEF p
<1>3. PICK c \in HookCategory :
             p \in [category : {c}, changes : ChangesOf(c), imports : SUBSET ImportName]
  BY <1>2 DEF AnyProposal
<1>4. p.changes \in ChangesOf(gaps[k + 1])
  BY <1>2, <1>3
<1>5. p.changes \in Seq(AnyChange) /\ \A i \in DOMAIN p.changes : p.changes[i].fragment.by = gaps[k + 1]
  BY <1>4 DEF ChangesOf
<1>6. \A i \in DOMAIN p.changes : p.changes[i] \in AnyChange
  BY <1>5
<1>7. \A i \in DOMAIN p.changes :
        p.changes[i].fragment \in Fragment /\ p.changes[i].location \in Location
  BY <1>6 DEF AnyChange
<1>8. Len(p.changes) \in Nat
  BY <1>5
<1>9. QED BY <1>1, <1>2, <1>5, <1>7, <1>8 DEF p

LEMMA PipeStart == PipelineInit => PipeInv
<1> SUFFICES ASSUME PipelineInit PROVE PipeInv
  OBVIOUS
<1>1. disk \in [FileSet -> Source]
  <2>1. Seq(OriginalLine) \subseteq Source
    BY DEF Source, SourceLine
  <2>2. disk \in [FileSet -> Seq(OriginalLine)]
    BY RepositoriesAssumption DEF PipelineInit
  <2>3. QED BY <2>1, <2>2
<1>2. StoreTypeOK
  BY <1>1 DEF PipelineInit, StoreTypeOK, Fresh
<1>3. PatchTypeOK
  BY FragmentIsLine DEF PipelineInit, PatchTypeOK
<1>4. Progress
  BY DEF PipelineInit, Progress, Fresh, Asking, Patched
<1>5. QED BY <1>2, <1>3, <1>4 DEF PipeInv

LEMMA NextFileKeeps ==
  ASSUME PipeInv, phase \notin {"scan", "done"}, NextFile, UNCHANGED <<disk, texts>>,
         DOMAIN summaries' = FileSet
  PROVE  PipeInv'
<1>1. todo' \subseteq todo /\ phase' \in {"analyze", "done"} /\ (phase' = "analyze" => todo' # {})
  BY DEF NextFile
<1>2. /\ gaps' = <<>> /\ proposals' = <<>> /\ k' = 0 /\ j' = 0 /\ before' = <<>>
      /\ working' = <<>> /\ applied' = {}
  BY DEF NextFile
<1>3. StoreTypeOK'
  BY <1>1 DEF PipeInv, StoreTypeOK, Fresh, Asking, Patched
<1>4. PatchTypeOK'
  BY <1>2, FragmentIsLine DEF PatchTypeOK
<1>5. Progress'
  BY <1>1, <1>2 DEF Progress, Fresh, Asking, Patched
<1>6. QED BY <1>3, <1>4, <1>5 DEF PipeInv

LEMMA ScanKeeps ==
  ASSUME PipeInv, Scan
  PROVE  PipeInv'
<1>1. /\ phase = "scan" /\ texts' = disk /\ disk' = disk
      /\ todo' \subseteq DOMAIN Files /\ phase' = IF todo' = {} THEN "done" ELSE "analyze"
      /\ UNCHANGED <<gaps, proposals, k, j, before, working, applied, summaries>>
  BY DEF Scan, patch
<1>2. StoreTypeOK'
  BY <1>1 DEF PipeInv, StoreTypeOK, Fresh, Asking, Patched
<1>3. PatchTypeOK'
  BY <1>1 DEF PipeInv, PatchTypeOK
<1>4. Progress'
  BY <1>1 DEF PipeInv, Progress, Fresh, Asking, Patched
<1>5. QED BY <1>2, <1>3, <1>4 DEF PipeInv

LEMMA AnalyzeKeeps ==
  ASSUME PipeInv, Analyze
  PROVE  PipeInv'
<1>1. phase = "analyze"
  BY DEF Analyze
<1>2. CASE ~Parses(texts[file])
  BY <1>1, <1>2, NextFileKeeps DEF Analyze, PipelineError, PipeInv, StoreTypeOK
<1>3. CASE Parses(texts[file])
  <2>1. /\ gaps' = GovernanceGaps(texts[file]) /\ working' = texts[file] /\ before' = texts[file]
        /\ phase' = CASE Len(gaps') = 0 -> "apply"
                      [] Len(gaps') = 1 -> "each"
                      [] OTHER -> "batch"
        /\ UNCHANGED <<disk, texts, todo, proposals, k, j, applied, summaries>>
    BY <1>3 DEF Analyze, BeginApply, result
  <2>2. texts[file] \in Source
    BY <1>1, PlaceOfFile DEF PipeInv
  <2>3. gaps' \in Seq(HookCategory) /\ \A i, m \in DOMAIN gaps' : gaps'[i] = gaps'[m] => i = m
    BY <2>1, GapsType
  <2>4. proposals = <<>> /\ k = 0 /\ j = 0 /\ applied = {}
    BY <1>1 DEF PipeInv, Progress, Fresh
  <2>5. Len(gaps') \in Nat
    BY <2>3
  <2>6. /\ phase' \in {"apply", "each", "batch"}
        /\ phase' = "apply" => Len(gaps') = 0
        /\ phase' \in {"each", "batch"} => Len(gaps') > 0
    BY <2>1, <2>5
  <2>7. file' = file
    BY <2>1 DEF file
  <2>8. StoreTypeOK'
    BY <1>1, <2>1, <2>6 DEF PipeInv, StoreTypeOK, Fresh, Asking, Patched
  <2>9. PatchTypeOK'
    BY <2>1, <2>2, <2>3 DEF PipeInv, PatchTypeOK
  <2>10. Progress'
    BY <2>1, <2>4, <2>5, <2>6, <2>7 DEF Progress, Fresh, Asking, Patched
  <2>11. QED BY <2>8, <2>9, <2>10 DEF PipeInv
<1>4. QED BY <1>2, <1>3

LEMMA BatchKeeps ==
  ASSUME PipeInv, GenerateBatch
  PROVE  PipeInv'
<1>1. /\ phase = "batch"
      /\ UNCHANGED <<disk, texts, todo, gaps, k, j, before, working, applied, summaries>>
  BY DEF GenerateBatch, patch, result
<1>2. /\ proposals = <<>> /\ k = 0 /\ j = 0 /\ applied = {} /\ working = texts[file] /\ before = working
      /\ 0 < Len(gaps) /\ file' = file
  BY <1>1 DEF PipeInv, Progress, Fresh, Asking, file
<1>3. CASE phase' = "each" /\ UNCHANGED proposals
  <2>1. StoreTypeOK' /\ PatchTypeOK'
    BY <1>1, <1>3 DEF PipeInv, StoreTypeOK, PatchTypeOK, Fresh, Asking, Patched
  <2>2. Progress'
    BY <1>1, <1>2, <1>3 DEF PipeInv, Progress, Fresh, Asking, Patched
  <2>3. QED BY <2>1, <2>2 DEF PipeInv
<1>4. CASE phase' = "apply" /\ \E reply \in [DOMAIN gaps -> ReplyKinds] : proposals' = BatchOf(reply)
  <2>1. PICK reply \in [DOMAIN gaps -> ReplyKinds] : proposals' = BatchOf(reply)
    BY <1>4
  <2>2. gaps \in Seq(HookCategory) /\ DOMAIN gaps = 1..Len(gaps) /\ Len(gaps) \in Nat
    BY DEF PipeInv, PatchTypeOK
  <2>3. \A i \in DOMAIN gaps :
          LET p == Proposal(gaps[i], ReplyOf(reply[i], gaps[i]), ImportsOf(reply[i]))
          IN  p \in AnyProposal /\ p.category = gaps[i]
    <3> TAKE i \in DOMAIN gaps
    <3>1. gaps[i] \in HookCategory /\ reply[i] \in ReplyKinds
      BY <2>2
    <3>2. QED BY <3>1, ReplyType, ProposalType
  <2>4. /\ proposals' \in Seq(AnyProposal) /\ Len(proposals') = Len(gaps)
        /\ \A i \in DOMAIN proposals' : proposals'[i].category = gaps[i]
    BY <2>1, <2>2, <2>3 DEF BatchOf
  <2>5. StoreTypeOK' /\ PatchTypeOK'
    BY <1>1, <1>4, <2>4 DEF PipeInv, StoreTypeOK, PatchTypeOK, Fresh, Asking, Patched
  <2>6. Progress'
    BY <1>1, <1>2, <1>4, <2>2, <2>4 DEF Progress, Fresh, Asking, Patched
  <2>7. QED BY <2>5, <2>6 DEF PipeInv
<1>5. QED BY <1>3, <1>4 DEF GenerateBatch

LEMMA EachKeeps ==
  ASSUME PipeInv, GenerateForGap
  PROVE  PipeInv'
<1> DEFINE c == gaps[Len(proposals) + 1]
<1>1. /\ phase = "each"
      /\ phase' = IF Len(proposals') = Len(gaps) THEN "apply" ELSE "each"
      /\ UNCHANGED <<disk, texts, todo, gaps, k, j, before, working, applied, summaries>>
  BY DEF GenerateForGap, patch, result
<1>2. /\ k = 0 /\ j = 0 /\ applied = {} /\ working = texts[file] /\ before = working
      /\ Len(proposals) < Len(gaps) /\ file' = file
  BY <1>1 DEF PipeInv, Progress, Fresh, Asking, file
<1>3. /\ gaps \in Seq(HookCategory) /\ proposals \in Seq(AnyProposal)
      /\ Len(gaps) \in Nat /\ Len(proposals) \in Nat
      /\ DOMAIN proposals = 1..Len(proposals) /\ DOMAIN gaps = 1..Len(gaps)
  BY DEF PipeInv, PatchTypeOK
<1>4. c \in HookCategory
  BY <1>2, <1>3
<1>5. \E changes \in ChangesOf(c), imports \in SUBSET ImportName :
        proposals' = Append(proposals, Proposal(c, changes, imports))
  BY <1>4, ReplyType DEF GenerateForGap
<1>6. PICK p \in AnyProposal : p.category = c /\ proposals' = Append(proposals, p)
  BY <1>4, <1>5, ProposalType
<1>7. /\ proposals' \in Seq(AnyProposal) /\ Len(proposals') = Len(proposals) + 1
      /\ \A i \in DOMAIN proposals : proposals'[i] = proposals[i]
      /\ proposals'[Len(proposals) + 1] = p /\ DOMAIN proposals' = 1..Len(proposals) + 1
  BY <1>3, <1>6
<1>8. \A i \in DOMAIN proposals' : proposals'[i].category = gaps[i]
  <2>1. \A i \in DOMAIN proposals : proposals'[i].category = gaps[i]
    BY <1>7 DEF PipeInv, Progress
  <2>2. proposals'[Len(proposals) + 1].category = gaps[Len(proposals) + 1]
    BY <1>6, <1>7
  <2>3. \A i \in DOMAIN proposals' : i \in DOMAIN proposals \/ i = Len(proposals) + 1
    BY <1>3, <1>7
  <2>4. QED BY <2>1, <2>2, <2>3
<1>9. StoreTypeOK' /\ PatchTypeOK'
  BY <1>1, <1>7 DEF PipeInv, StoreTypeOK, PatchTypeOK, Fresh, Asking, Patched
<1>10. Progress'
  <2>1. Len(proposals') <= Len(gaps) /\ (Len(proposals') # Len(gaps) => Len(proposals') < Len(gaps))
    <3>1. Len(proposals) \in Nat /\ Len(gaps) \in Nat /\ Len(proposals) < Len(gaps)
      BY <1>2, <1>3
    <3>2. Len(proposals') = Len(proposals) + 1
      BY <1>7
    <3>3. QED BY <3>1, <3>2
  <2>2. \/ phase' = "apply" /\ Len(proposals') = Len(gaps)
        \/ phase' = "each" /\ Len(proposals') < Len(gaps)
    <3>1. CASE Len(proposals') = Len(gaps)
      BY <1>1, <3>1
    <3>2. CASE Len(proposals') # Len(gaps)
      BY <1>1, <2>1, <3>2
    <3>3. QED BY <3>1, <3>2
  <2>3. /\ gaps' = gaps /\ working' = texts'[file'] /\ before' = working'
        /\ k' = 0 /\ j' = 0 /\ applied' = {} /\ k' <= Len(proposals')
    <3>1. gaps' = gaps /\ working' = texts'[file'] /\ before' = working'
      BY <1>1, <1>2
    <3>2. k' = 0 /\ j' = 0 /\ applied' = {}
      BY <1>1, <1>2
    <3>3. Len(proposals) \in Nat /\ Len(proposals') = Len(proposals) + 1
      BY <1>3, <1>7
    <3>4. 0 <= Len(proposals')
      BY <3>3
    <3>5. QED BY <3>1, <3>2, <3>4
  <2>4. QED BY <1>8, <2>1, <2>2, <2>3 DEF Progress, Fresh, Asking, Patched
<1>11. QED BY <1>9, <1>10 DEF PipeInv

LEMMA ApplyKeeps ==
  ASSUME PipeInv, ApplyChange
  PROVE  PipeInv'
<1> DEFINE changes == proposals[k + 1].changes
           change == changes[j + 1]
           at == Resolve(change.location, working, change.target)
<1>1. /\ phase = "apply" /\ k < Len(proposals) /\ j < Len(changes)
      /\ UNCHANGED <<disk, texts, todo, phase, gaps, proposals, before, applied, summaries>>
  BY DEF ApplyChange, result
<1>2. /\ Len(changes) \in Nat /\ j + 1 \in DOMAIN changes
      /\ change.fragment \in Fragment /\ change.location \in Location
  <2>1. changes \in Seq(AnyChange) /\ Len(changes) \in Nat
    BY <1>1, InHand DEF PipeInv
  <2>2. j + 1 \in DOMAIN changes
    BY <1>1, <2>1 DEF PipeInv, PatchTypeOK
  <2>3. QED BY <1>1, <2>1, <2>2, InHand DEF PipeInv
<1>3. at.line \in Nat /\ change.fragment \in SourceLine /\ working \in Source
  BY <1>2, ResolveType, FragmentIsLine DEF PipeInv, PatchTypeOK
<1>4. \/ working' = before /\ k' = k + 1 /\ j' = 0
      \/ working' \in Source /\ k' = k /\ j' = j + 1
  <2>1. CASE at.line = 0
    BY <2>1 DEF ApplyChange
  <2>2. CASE at.line # 0
    <3>1. working' = InsertBeforeLine(working, at.line, change.fragment) /\ k' = k /\ j' = j + 1
      BY <2>2 DEF ApplyChange
    <3>2. at.line \in Nat \ {0}
      BY <1>3, <2>2
    <3> HIDE DEF at, change
    <3>3. QED BY <1>3, <3>1, <3>2, InsertedCount
  <2>3. QED BY <2>1, <2>2
<1> HIDE DEF at, change
<1>5. StoreTypeOK'
  BY <1>1 DEF PipeInv, StoreTypeOK
<1>6. PatchTypeOK'
  BY <1>1, <1>4 DEF PipeInv, PatchTypeOK
<1>7. Len(proposals) \in Nat /\ k \in Nat /\ j \in Nat /\ Len(proposals) = Len(gaps)
  BY <1>1 DEF PipeInv, PatchTypeOK, Progress
<1>8. k' <= Len(proposals) /\ (j' = 0 \/ (k' < Len(proposals) /\ j' <= Len(proposals[k' + 1].changes)))
  BY <1>1, <1>2, <1>4, <1>7
<1>9. Progress'
  BY <1>1, <1>8 DEF PipeInv, Progress, Fresh, Asking, Patched
<1>10. QED BY <1>5, <1>6, <1>9 DEF PipeInv

LEMMA AppliedKeeps ==
  ASSUME PipeInv, ProposalApplied
  PROVE  PipeInv'
<1>1. /\ phase = "apply" /\ k < Len(proposals) /\ before' = working /\ k' = k + 1 /\ j' = 0
      /\ UNCHANGED <<disk, texts, todo, phase, gaps, proposals, working, summaries>>
  BY DEF ProposalApplied, result
<1>2. StoreTypeOK' /\ PatchTypeOK'
  BY <1>1 DEF PipeInv, StoreTypeOK, PatchTypeOK
<1>3. Len(proposals) \in Nat /\ k \in Nat
  BY DEF PipeInv, PatchTypeOK
<1>4. Progress'
  BY <1>1, <1>3 DEF PipeInv, Progress, Fresh, Asking, Patched
<1>5. QED BY <1>2, <1>4 DEF PipeInv

LEMMA PendingType ==
  ASSUME PatchTypeOK
  PROVE  NewImports(working, PendingImports) \subseteq ImportName
<1>1. \A p \in ToSet(proposals) : p.imports \subseteq ImportName
  <2> TAKE p \in ToSet(proposals)
  <2>1. p \in AnyProposal
    BY DEF PatchTypeOK, ToSet
  <2>2. QED BY <2>1 DEF AnyProposal
<1>2. QED BY <1>1 DEF NewImports, PendingImports

LEMMA ImportsKeep ==
  ASSUME PipeInv, ApplyImports
  PROVE  PipeInv'
<1>1. /\ phase = "apply" /\ k = Len(proposals) /\ phase' = "redetect"
      /\ UNCHANGED <<disk, texts, todo, gaps, proposals, k, j, before, applied, summaries>>
  BY DEF ApplyImports, result
<1>2. working' \in Source
  <2>1. NewImports(working, PendingImports) \subseteq ImportName /\ working \in Source
    BY PendingType DEF PipeInv, PatchTypeOK
  <2>2. InjectImports(working, NewImports(working, PendingImports)) \in Source
    BY <2>1, ImportsCount
  <2>3. QED BY <2>1, <2>2 DEF ApplyImports
<1>3. StoreTypeOK' /\ PatchTypeOK'
  BY <1>1, <1>2 DEF PipeInv, StoreTypeOK, PatchTypeOK, Fresh, Asking, Patched
<1>4. k \in Nat
  BY DEF PipeInv, PatchTypeOK
<1>5. Progress'
  BY <1>1, <1>4 DEF PipeInv, Progress, Fresh, Asking, Patched
<1>6. QED BY <1>3, <1>5 DEF PipeInv

(* The steps that leave the text and the proposals as they are.            *)
LEMMA PatchedKeeps ==
  ASSUME PipeInv, phase \in Patched, phase' \in Patched,
         UNCHANGED <<texts, todo, gaps, proposals, k, j, before, working, applied, summaries>>,
         disk' \in [FileSet -> Source]
  PROVE  PipeInv'
<1>1. StoreTypeOK' /\ PatchTypeOK'
  BY DEF PipeInv, StoreTypeOK, PatchTypeOK, Patched
<1>2. Progress'
  BY DEF PipeInv, Progress, Fresh, Asking, Patched
<1>3. QED BY <1>1, <1>2 DEF PipeInv

LEMMA PipeStep ==
  ASSUME PipeInv, [PipelineNext]_pipelineVars
  PROVE  PipeInv'
<1>1. CASE Scan
  BY <1>1, ScanKeeps
<1>2. CASE Analyze
  BY <1>2, AnalyzeKeeps
<1>3. CASE GenerateBatch
  BY <1>3, BatchKeeps
<1>4. CASE GenerateForGap
  BY <1>4, EachKeeps
<1>5. CASE ApplyChange
  BY <1>5, ApplyKeeps
<1>6. CASE ProposalApplied
  BY <1>6, AppliedKeeps
<1>7. CASE ApplyImports
  BY <1>7, ImportsKeep
<1>8. CASE Redetect
  <2>1. phase = "redetect"
    BY <1>8 DEF Redetect
  <2>2. CASE Changed /\ ~Parses(working)
    BY <1>8, <2>1, <2>2, NextFileKeeps DEF Redetect, PipelineError, PipeInv, StoreTypeOK
  <2>3. CASE ~(Changed /\ ~Parses(working))
    <3>1. phase' = "write" /\ disk' \in [FileSet -> Source]
          /\ UNCHANGED <<texts, todo, gaps, proposals, k, j, before, working, applied, summaries>>
      BY <1>8, <2>3 DEF Redetect, PipeInv, StoreTypeOK, result
    <3>2. QED BY <2>1, <3>1, PatchedKeeps DEF Patched
  <2>4. QED BY <2>2, <2>3
<1>9. CASE WriteBack
  <2>1. phase = "write" /\ phase' = "validate"
        /\ UNCHANGED <<texts, todo, gaps, proposals, k, j, before, working, applied, summaries>>
    BY <1>9 DEF WriteBack, result
  <2>2. \/ disk' = disk \/ disk' = [disk EXCEPT ![file] = working]
        \/ disk' = [disk EXCEPT ![file] = Torn]
    BY <1>9 DEF WriteBack
  <2>3. disk' \in [FileSet -> Source]
    BY <2>2, FragmentIsLine DEF PipeInv, StoreTypeOK, PatchTypeOK
  <2>4. QED BY <2>1, <2>3, PatchedKeeps DEF Patched
<1>10. CASE ValidateAndReport
  <2>1. DOMAIN summaries' = FileSet /\ phase = "validate" /\ NextFile /\ UNCHANGED <<disk, texts>>
    BY <1>10 DEF ValidateAndReport, PipeInv, StoreTypeOK
  <2>2. QED BY <2>1, NextFileKeeps
<1>11. CASE Rerun
  <2>1. /\ phase = "done" /\ phase' = "scan" /\ DOMAIN summaries' = FileSet
        /\ UNCHANGED <<disk, texts, todo, gaps, proposals, k, j, before, working, applied>>
    BY <1>11 DEF Rerun, patch
  <2>2. StoreTypeOK' /\ PatchTypeOK'
    BY <2>1 DEF PipeInv, StoreTypeOK, PatchTypeOK, Fresh
  <2>3. Progress'
    BY <2>1 DEF PipeInv, Progress, Fresh, Asking, Patched
  <2>4. QED BY <2>2, <2>3 DEF PipeInv
<1>12. CASE UNCHANGED pipelineVars
  <2>1. StoreTypeOK' /\ PatchTypeOK'
    BY <1>12 DEF PipeInv, StoreTypeOK, PatchTypeOK, pipelineVars, patch, result
  <2>2. Progress'
    BY <1>12 DEF PipeInv, Progress, pipelineVars, patch, result, file
  <2>3. QED BY <2>1, <2>2 DEF PipeInv
<1>13. QED
  BY <1>1, <1>2, <1>3, <1>4, <1>5, <1>6, <1>7, <1>8, <1>9, <1>10, <1>11, <1>12 DEF PipelineNext, Stage

LEMMA PipeAlways == PipelineSpec => []PipeInv
<1>1. PipeInv /\ [PipelineNext]_pipelineVars => PipeInv'
  BY PipeStep
<1>2. QED BY <1>1, PipeStart, PTL DEF PipelineSpec

-----------------------------------------------------------------------------
(* What became of each proposal                                            *)

(* Only proposals that were dealt with are applied, and each of those is   *)
(* applied or an error.                                                    *)
Decided ==
  /\ \A c \in applied : \E i \in 1..k : gaps[i] = c
  /\ \A i \in 1..k : gaps[i] \in applied \cup errors

(* Detection has looked at what is about to be written.                    *)
Reported ==
  phase \in {"write", "validate"} /\ Changed => \A c \in applied : Detects(c, working) \/ c \in warned

Accounted == Decided /\ Reported

LEMMA LeavingFile ==
  ASSUME NextFile
  PROVE  Accounted'
<1>1. k' = 0 /\ applied' = {} /\ phase' \in {"analyze", "done"}
  BY DEF NextFile
<1>2. QED BY <1>1 DEF Accounted, Decided, Reported

LEMMA NothingDecided ==
  ASSUME Accounted, k' = k, UNCHANGED <<applied, errors>>, gaps' = gaps \/ k = 0,
         phase' \notin {"write", "validate"}
  PROVE  Accounted'
BY DEF Accounted, Decided, Reported

LEMMA AccountedStep ==
  ASSUME PipeInv, Accounted, [PipelineNext]_pipelineVars
  PROVE  Accounted'
<1>1. CASE Scan
  BY <1>1, NothingDecided DEF Scan, patch
<1>2. CASE Analyze
  <2>1. phase = "analyze" /\ k = 0
    BY <1>2 DEF Analyze, PipeInv, Progress, Fresh
  <2>2. CASE ~Parses(texts[file])
    BY <1>2, <2>2, LeavingFile DEF Analyze, PipelineError
  <2>3. CASE Parses(texts[file])
    <3>1. phase' \in {"apply", "each", "batch"} /\ UNCHANGED <<k, applied, errors>>
      BY <1>2, <2>3 DEF Analyze
    <3>2. QED BY <2>1, <3>1, NothingDecided
  <2>4. QED BY <2>2, <2>3
<1>3. CASE GenerateBatch
  <2>1. phase' \in {"each", "apply"} /\ UNCHANGED <<gaps, k, applied, errors>>
    BY <1>3 DEF GenerateBatch, patch
  <2>2. QED BY <2>1, NothingDecided
<1>4. CASE GenerateForGap
  <2>1. phase' \in {"each", "apply"} /\ UNCHANGED <<gaps, k, applied, errors>>
    BY <1>4 DEF GenerateForGap, patch
  <2>2. QED BY <2>1, NothingDecided
<1>5. CASE ApplyChange
  <2>1. k < Len(proposals) /\ phase' = "apply" /\ UNCHANGED <<gaps, proposals, applied>>
    BY <1>5 DEF ApplyChange
  <2>2. CASE k' = k /\ UNCHANGED errors
    BY <2>1, <2>2, NothingDecided
  <2>3. CASE k' = k + 1 /\ errors' = errors \cup {proposals[k + 1].category}
    <3>1. proposals[k + 1].category = gaps[k + 1] /\ k \in Nat
      BY <2>1, InHand DEF PipeInv, PatchTypeOK
    <3>2. \A i \in 1..k' : i \in 1..k \/ i = k + 1
      BY <2>3, <3>1
    <3>3. \A i \in 1..k' : gaps[i] \in applied \cup errors'
      BY <2>3, <3>1, <3>2 DEF Accounted, Decided
    <3>4. \A c \in applied : \E i \in 1..k' : gaps[i] = c
      BY <2>3, <3>1 DEF Accounted, Decided
    <3>5. QED BY <2>1, <3>3, <3>4 DEF Accounted, Decided, Reported
  <2>4. QED BY <1>5, <2>2, <2>3 DEF ApplyChange
<1>6. CASE ProposalApplied
  <2>1. /\ k < Len(proposals) /\ k' = k + 1 /\ applied' = applied \cup {proposals[k + 1].category}
        /\ phase' = "apply" /\ UNCHANGED <<gaps, errors>>
    BY <1>6 DEF ProposalApplied
  <2>2. proposals[k + 1].category = gaps[k + 1] /\ k \in Nat
    BY <2>1, InHand DEF PipeInv, PatchTypeOK
  <2>3. \A i \in 1..k' : i \in 1..k \/ i = k + 1
    BY <2>1, <2>2
  <2>4. \A i \in 1..k' : gaps[i] \in applied' \cup errors
    BY <2>1, <2>2, <2>3 DEF Accounted, Decided
  <2>5. k + 1 \in 1..k' /\ 1..k \subseteq 1..k'
    BY <2>1, <2>2
  <2>6. \A c \in applied' : \E i \in 1..k' : gaps[i] = c
    BY <2>1, <2>2, <2>5 DEF Accounted, Decided
  <2>7. QED BY <2>1, <2>4, <2>6 DEF Accounted, Decided, Reported
<1>7. CASE ApplyImports
  BY <1>7, NothingDecided DEF ApplyImports
<1>8. CASE Redetect
  <2>1. CASE Changed /\ ~Parses(working)
    BY <1>8, <2>1, LeavingFile DEF Redetect, PipelineError
  <2>2. CASE ~(Changed /\ ~Parses(working))
    <3>1. /\ warned' = IF Changed THEN warned \cup Undetected(working) ELSE warned
          /\ UNCHANGED <<texts, todo, gaps, k, working, applied, errors>>
      BY <1>8, <2>2 DEF Redetect
    <3>2. Changed' <=> Changed
      BY <3>1 DEF Changed, file
    <3>3. Changed => \A c \in applied : Detects(c, working) \/ c \in warned'
      BY <3>1 DEF Undetected
    <3>4. QED BY <3>1, <3>2, <3>3 DEF Accounted, Decided, Reported
  <2>3. QED BY <2>1, <2>2
<1>9. CASE WriteBack
  <2>1. /\ phase = "write" /\ warned \subseteq warned'
        /\ UNCHANGED <<texts, todo, gaps, k, working, applied, errors>>
    BY <1>9 DEF WriteBack
  <2>2. Changed' <=> Changed
    BY <2>1 DEF Changed, file
  <2>3. QED BY <2>1, <2>2 DEF Accounted, Decided, Reported
<1>10. CASE ValidateAndReport
  BY <1>10, LeavingFile DEF ValidateAndReport
<1>11. CASE Rerun
  BY <1>11, NothingDecided DEF Rerun, patch
<1>12. CASE UNCHANGED pipelineVars
  BY <1>12 DEF Accounted, Decided, Reported, Changed, file, pipelineVars, patch
<1>13. QED
  BY <1>1, <1>2, <1>3, <1>4, <1>5, <1>6, <1>7, <1>8, <1>9, <1>10, <1>11, <1>12 DEF PipelineNext, Stage

(* Whatever the model answers: in a text that is about to replace a file,  *)
(* every hook the file lacked is found by detection, or the report warns   *)
(* of it, or its proposal is among the errors (runner.py, apply_proposals  *)
(* and the second detection).                                              *)
THEOREM GapsAreAccounted == PipelineSpec => []GapsAccounted
<1>1. PipelineInit => Accounted
  BY DEF PipelineInit, Accounted, Decided, Reported
<1>2. PipeInv /\ Accounted /\ [PipelineNext]_pipelineVars => Accounted'
  BY AccountedStep
<1>3. PipeInv /\ Accounted => GapsAccounted
  <2> SUFFICES ASSUME PipeInv, Accounted, phase \in {"write", "validate"}, Changed,
                      NEW c \in ToSet(gaps)
               PROVE  Detects(c, working) \/ c \in warned \cup errors
    BY DEF GapsAccounted
  <2>1. k = Len(gaps)
    BY DEF PipeInv, Progress, Patched
  <2>2. PICK i \in 1..k : gaps[i] = c
    BY <2>1 DEF PipeInv, PatchTypeOK, ToSet
  <2>3. c \in applied \cup errors
    BY <2>2 DEF Accounted, Decided
  <2>4. QED BY <2>3 DEF Accounted, Reported
<1>4. QED BY <1>1, <1>2, <1>3, PipeAlways, PTL DEF PipelineSpec

-----------------------------------------------------------------------------
(* The lines a proposal has in the text                                    *)

Placed(i) == IF i <= k /\ gaps[i] \in applied THEN Len(proposals[i].changes) ELSE 0

(* The text a proposal is undone to holds the applied ones whole, and the  *)
(* working text besides that as many changes of the next one as were made. *)
Counted ==
  phase \notin Fresh =>
    \A i \in DOMAIN proposals :
      /\ CountBy(before, gaps[i]) = CountBy(texts[file], gaps[i]) + Placed(i)
      /\ CountBy(working, gaps[i]) = CountBy(before, gaps[i]) + IF i = k + 1 THEN j ELSE 0

LEMMA CountedUntouched ==
  ASSUME PipeInv, phase \notin {"scan", "done"}, k' = 0, j' = 0,
         working' = texts[file], before' = texts[file], UNCHANGED <<texts, todo>>, PipeInv'
  PROVE  Counted'
<1>1. file' = file /\ texts[file] \in Source
  BY PlaceOfFile DEF PipeInv, file
<1>2. \A c : CountBy(texts[file], c) \in Nat
  BY <1>1, LinesByFinite
<1>3. \A i \in DOMAIN proposals' : ~(i <= k')
  BY DEF PipeInv, PatchTypeOK
<1>4. \A i \in DOMAIN proposals' : Placed(i)' = 0
  BY <1>3 DEF Placed
<1>5. QED BY <1>1, <1>2, <1>4 DEF Counted

LEMMA CountedApply ==
  ASSUME PipeInv, Decided, Counted, ApplyChange
  PROVE  Counted'
<1> DEFINE changes == proposals[k + 1].changes
           change == changes[j + 1]
           at == Resolve(change.location, working, change.target)
           c(i) == gaps[i]
<1>1. /\ phase = "apply" /\ phase' = "apply" /\ k < Len(proposals) /\ j < Len(changes)
      /\ UNCHANGED <<texts, todo, gaps, proposals, before, applied>> /\ file' = file
  BY DEF ApplyChange, file
<1>2. /\ j + 1 \in DOMAIN changes /\ change.location \in Location
      /\ change.fragment \in SourceLine /\ change.fragment.by = gaps[k + 1]
  <2>1. changes \in Seq(AnyChange) /\ j + 1 \in DOMAIN changes
    BY <1>1, InHand DEF PipeInv, PatchTypeOK
  <2>2. QED BY <1>1, <2>1, InHand, FragmentIsLine DEF PipeInv
<1>3. at.line \in Nat /\ working \in Source /\ k \in Nat /\ j \in Nat
  BY <1>2, ResolveType DEF PipeInv, PatchTypeOK
<1>4. /\ DOMAIN proposals \subseteq DOMAIN gaps /\ DOMAIN proposals \subseteq Nat
      /\ k + 1 \in DOMAIN gaps /\ \A i \in 1..k : i \in DOMAIN gaps
  BY <1>1 DEF PipeInv, PatchTypeOK, Progress
<1>5. \A i \in DOMAIN proposals : gaps[i] = gaps[k + 1] <=> i = k + 1
  BY <1>4 DEF PipeInv, PatchTypeOK
<1>6. gaps[k + 1] \notin applied
  BY <1>3, <1>4 DEF PipeInv, PatchTypeOK, Decided
<1>7. \A i \in DOMAIN proposals :
        /\ CountBy(before, gaps[i]) = CountBy(texts[file], gaps[i]) + Placed(i)
        /\ CountBy(working, gaps[i]) = CountBy(before, gaps[i]) + IF i = k + 1 THEN j ELSE 0
        /\ CountBy(before, gaps[i]) \in Nat /\ CountBy(working, gaps[i]) \in Nat
  BY <1>1, LinesByFinite DEF Counted, Fresh, PipeInv, PatchTypeOK
<1>8. CASE at.line = 0
  <2>1. working' = before /\ k' = k + 1 /\ j' = 0
    BY <1>8 DEF ApplyChange
  <2>2. \A i \in DOMAIN proposals : Placed(i)' = Placed(i)
    <3> TAKE i \in DOMAIN proposals
    <3>1. CASE i = k + 1
      BY <1>1, <1>3, <1>6, <2>1, <3>1 DEF Placed
    <3>2. CASE i # k + 1
      <4>1. i <= k + 1 <=> i <= k
        BY <1>3, <1>4, <3>2
      <4>2. QED BY <1>1, <2>1, <4>1 DEF Placed
    <3>3. QED BY <3>1, <3>2
  <2>3. QED BY <1>1, <1>7, <2>1, <2>2 DEF Counted
<1>9. CASE at.line # 0
  <2>1. working' = InsertBeforeLine(working, at.line, change.fragment) /\ k' = k /\ j' = j + 1
    BY <1>9 DEF ApplyChange
  <2>2. at.line \in Nat \ {0}
    BY <1>3, <1>9
  <2> HIDE DEF at, change
  <2>3. \A d : CountBy(working', d) = CountBy(working, d) + IF change.fragment.by = d THEN 1 ELSE 0
    BY <1>2, <1>3, <2>1, <2>2, InsertedCount
  <2>4. \A i \in DOMAIN proposals :
          CountBy(working', gaps[i]) = CountBy(before, gaps[i]) + IF i = k' + 1 THEN j' ELSE 0
    <3> TAKE i \in DOMAIN proposals
    <3>1. CASE i = k + 1
      BY <1>2, <1>3, <1>7, <2>1, <2>3, <3>1
    <3>2. CASE i # k + 1
      <4>1. change.fragment.by # gaps[i]
        BY <1>2, <1>5, <3>2
      <4>2. QED BY <1>7, <2>1, <2>3, <3>2, <4>1
    <3>3. QED BY <3>1, <3>2
  <2>5. \A i \in DOMAIN proposals : Placed(i)' = Placed(i)
    BY <1>1, <2>1 DEF Placed
  <2>6. QED BY <1>1, <1>7, <2>4, <2>5 DEF Counted
<1>10. QED BY <1>8, <1>9

LEMMA CountedApplied ==
  ASSUME PipeInv, Decided, Counted, ProposalApplied
  PROVE  Counted'
<1>1. /\ phase = "apply" /\ k < Len(proposals) /\ j = Len(proposals[k + 1].changes)
      /\ applied' = applied \cup {proposals[k + 1].category}
      /\ before' = working /\ working' = working /\ k' = k + 1 /\ j' = 0
      /\ UNCHANGED <<texts, todo, gaps, proposals>> /\ file' = file
  BY DEF ProposalApplied, file
<1>2. /\ DOMAIN proposals \subseteq DOMAIN gaps /\ DOMAIN proposals \subseteq Nat
      /\ k + 1 \in DOMAIN gaps /\ k \in Nat /\ j \in Nat
      /\ applied' = applied \cup {gaps[k + 1]}
  BY <1>1, InHand DEF PipeInv, PatchTypeOK, Progress
<1>3. \A i \in DOMAIN proposals : gaps[i] = gaps[k + 1] <=> i = k + 1
  BY <1>2 DEF PipeInv, PatchTypeOK
<1>4. \A i \in DOMAIN proposals :
        /\ CountBy(before, gaps[i]) = CountBy(texts[file], gaps[i]) + Placed(i)
        /\ CountBy(working, gaps[i]) = CountBy(before, gaps[i]) + IF i = k + 1 THEN j ELSE 0
        /\ CountBy(before, gaps[i]) \in Nat /\ CountBy(working, gaps[i]) \in Nat
  BY <1>1, LinesByFinite DEF Counted, Fresh, PipeInv, PatchTypeOK
<1>5. \A c : CountBy(texts[file], c) \in Nat
  BY <1>1, PlaceOfFile, LinesByFinite DEF PipeInv
<1>6. \A i \in DOMAIN proposals :
        CountBy(working, gaps[i]) = CountBy(texts[file], gaps[i]) + Placed(i)'
  <2> TAKE i \in DOMAIN proposals
  <2>1. CASE i = k + 1
    <3>1. Placed(i) = 0
      BY <1>2, <2>1 DEF Placed
    <3>2. Placed(i)' = j
      BY <1>1, <1>2, <2>1 DEF Placed
    <3>3. QED BY <1>2, <1>4, <1>5, <2>1, <3>1, <3>2
  <2>2. CASE i # k + 1
    <3>1. (i <= k + 1 <=> i <= k) /\ (gaps[i] \in applied' <=> gaps[i] \in applied)
      BY <1>2, <1>3, <2>2
    <3>2. Placed(i)' = Placed(i)
      BY <1>1, <3>1 DEF Placed
    <3>3. QED BY <1>4, <2>2, <3>2
  <2>3. QED BY <2>1, <2>2
<1>7. QED BY <1>1, <1>4, <1>6 DEF Counted

LEMMA CountedImports ==
  ASSUME PipeInv, Counted, ApplyImports
  PROVE  Counted'
<1>1. /\ phase = "apply" /\ k = Len(proposals)
      /\ working' = InjectImports(working, NewImports(working, PendingImports))
      /\ UNCHANGED <<texts, todo, gaps, proposals, k, j, before, applied>> /\ file' = file
  BY DEF ApplyImports, file
<1>2. \A c \in HookCategory : CountBy(working', c) = CountBy(working, c)
  <2>1. NewImports(working, PendingImports) \subseteq ImportName /\ working \in Source
    BY PendingType DEF PipeInv, PatchTypeOK
  <2>2. QED BY <1>1, <2>1, ImportsCount, Catalog
<1>3. \A i \in DOMAIN proposals : gaps[i] \in HookCategory
  BY DEF PipeInv, PatchTypeOK, Progress
<1>4. \A i \in DOMAIN proposals : Placed(i)' = Placed(i)
  BY <1>1 DEF Placed
<1>5. QED BY <1>1, <1>2, <1>3, <1>4 DEF Counted, Fresh

LEMMA CountedStep ==
  ASSUME PipeInv, Accounted, Counted, [PipelineNext]_pipelineVars
  PROVE  Counted'
<1>1. PipeInv'
  BY PipeStep
<1>2. CASE phase' \in Fresh
  BY <1>2 DEF Counted
<1>3. CASE Analyze /\ phase' \notin Fresh
  <2>1. Parses(texts[file])
    BY <1>3 DEF Analyze, PipelineError, NextFile, Fresh
  <2>2. /\ phase = "analyze" /\ working' = texts[file] /\ before' = texts[file]
        /\ UNCHANGED <<texts, todo, k, j>>
    BY <1>3, <2>1 DEF Analyze, BeginApply
  <2>3. k = 0 /\ j = 0
    BY <2>2 DEF PipeInv, Progress, Fresh
  <2>4. QED BY <1>1, <2>2, <2>3, CountedUntouched
<1>4. CASE GenerateBatch \/ GenerateForGap
  <2>1. phase \in Asking /\ UNCHANGED <<texts, todo, k, j, before, working>>
    BY <1>4 DEF GenerateBatch, GenerateForGap, patch, Asking
  <2>2. k = 0 /\ j = 0 /\ working = texts[file] /\ before = texts[file]
    BY <2>1 DEF PipeInv, Progress
  <2>3. QED BY <1>1, <2>1, <2>2, CountedUntouched DEF Asking
<1>5. CASE ApplyChange
  BY <1>5, CountedApply DEF Accounted
<1>6. CASE ProposalApplied
  BY <1>6, CountedApplied DEF Accounted
<1>7. CASE ApplyImports
  BY <1>7, CountedImports
<1>8. CASE (Redetect \/ WriteBack) /\ phase' \notin Fresh
  <2>1. /\ phase \in Patched
        /\ UNCHANGED <<texts, todo, gaps, proposals, k, j, before, working, applied>>
    BY <1>8 DEF Redetect, WriteBack, PipelineError, NextFile, Fresh, Patched
  <2>2. file' = file /\ \A i \in DOMAIN proposals : Placed(i)' = Placed(i)
    BY <2>1 DEF file, Placed
  <2>3. QED BY <2>1, <2>2 DEF Counted, Fresh, Patched
<1>9. CASE (Scan \/ ValidateAndReport \/ Rerun) /\ phase' \notin Fresh
  BY <1>9 DEF Scan, ValidateAndReport, NextFile, Rerun, Fresh
<1>10. CASE UNCHANGED pipelineVars
  <2>1. UNCHANGED <<phase, texts, todo, gaps, proposals, k, j, before, working, applied>>
    BY <1>10 DEF pipelineVars, patch
  <2>2. file' = file /\ \A i \in DOMAIN proposals : Placed(i)' = Placed(i)
    BY <2>1 DEF file, Placed
  <2>3. QED BY <2>1, <2>2 DEF Counted
<1>11. QED
  BY <1>2, <1>3, <1>4, <1>5, <1>6, <1>7, <1>8, <1>9, <1>10 DEF PipelineNext, Stage

(* Whatever the model proposes and wherever its changes go: after each     *)
(* proposal the text holds every line of the applied ones and not one line *)
(* of the others, whose first changes were undone when a later one could   *)
(* not be placed (patch_applier.py, apply_proposals).                      *)
THEOREM ProposalsAreWhole == PipelineSpec => []AllOrNothing
<1> DEFINE Inv == PipeInv /\ Accounted /\ Counted
<1>1. PipelineInit => Inv
  <2>1. PipelineInit => Accounted
    BY DEF PipelineInit, Accounted, Decided, Reported
  <2>2. PipelineInit => Counted
    BY DEF PipelineInit, Counted, Fresh
  <2>3. QED BY <2>1, <2>2, PipeStart
<1>2. Inv /\ [PipelineNext]_pipelineVars => Inv'
  BY PipeStep, AccountedStep, CountedStep
<1>3. Inv => AllOrNothing
  <2> SUFFICES ASSUME Inv, phase \in {"apply", "redetect", "write", "validate"}, j = 0,
                      NEW i \in 1..k
               PROVE  LET c == proposals[i].category
                      IN  CountBy(working, c) = CountBy(texts[file], c)
                            + IF c \in applied THEN Len(proposals[i].changes) ELSE 0
    BY DEF AllOrNothing
  <2>1. i \in DOMAIN proposals /\ k \in Nat /\ proposals[i].category = gaps[i]
    BY DEF PipeInv, PatchTypeOK, Progress
  <2>2. /\ CountBy(before, gaps[i]) = CountBy(texts[file], gaps[i]) + Placed(i)
        /\ CountBy(working, gaps[i]) = CountBy(before, gaps[i]) + 0
    BY <2>1 DEF Counted, Fresh
  <2>3. CountBy(before, gaps[i]) \in Nat
    BY LinesByFinite DEF PipeInv, PatchTypeOK
  <2>4. Placed(i) = IF gaps[i] \in applied THEN Len(proposals[i].changes) ELSE 0
    BY <2>1 DEF Placed
  <2>5. QED BY <2>1, <2>2, <2>3, <2>4
<1>4. QED BY <1>1, <1>2, <1>3, PTL DEF PipelineSpec

-----------------------------------------------------------------------------
(* What was judged is what is on the disk                                  *)

(* The files still to come have no verdict, so writing one spoils none;    *)
(* and the text that is judged is the one that was written.                *)
Delivered ==
  /\ phase = "scan" => \A f \in FileSet : summaries[f].status = "none"
  /\ \A i \in todo : summaries[Files[i]].status = "none"
  /\ phase = "validate" /\ ~dry /\ Changed /\ "write" \notin warned => disk[file] = working
  /\ PassedFilesJudged

LEMMA NothingDelivered ==
  ASSUME Delivered, UNCHANGED <<disk, summaries>>, phase' \notin {"scan", "validate"},
         todo' \subseteq todo
  PROVE  Delivered'
BY DEF Delivered, PassedFilesJudged

LEMMA DeliveredWrite ==
  ASSUME PipeInv, Delivered, WriteBack
  PROVE  Delivered'
<1>1. /\ phase = "write" /\ phase' = "validate" /\ file' = file
      /\ UNCHANGED <<dry, texts, todo, working, applied, summaries>>
  BY DEF WriteBack, result, file
<1>2. Changed' <=> Changed
  BY <1>1 DEF Changed
<1>3. file \in FileSet /\ summaries[file].status = "none"
  BY <1>1, PlaceOfFile DEF PipeInv, Delivered, file
<1>4. CASE disk' = [disk EXCEPT ![file] = working]
  <2>1. disk'[file] = working /\ \A f \in FileSet : f # file => disk'[f] = disk[f]
    BY <1>3, <1>4 DEF PipeInv, StoreTypeOK
  <2>2. PassedFilesJudged'
    BY <1>1, <1>3, <2>1 DEF Delivered, PassedFilesJudged
  <2>3. QED BY <1>1, <2>1, <2>2 DEF Delivered
<1>5. CASE /\ disk' = disk \/ disk' = [disk EXCEPT ![file] = Torn]
           /\ "write" \in warned' \/ ~(~dry /\ Changed)
  <2>1. \A f \in FileSet : f # file => disk'[f] = disk[f]
    BY <1>3, <1>5 DEF PipeInv, StoreTypeOK
  <2>2. PassedFilesJudged'
    BY <1>1, <1>3, <2>1 DEF Delivered, PassedFilesJudged
  <2>3. QED BY <1>1, <1>2, <1>5, <2>2 DEF Delivered
<1>6. QED BY <1>4, <1>5 DEF WriteBack

Passes(s) ==
  \E outcome \in Outcomes(s, Installed) : outcome.result = "ok" \/ ImportErrorOnly(outcome)

LEMMA VerdictIsEarned ==
  ASSUME NEW outcome \in Outcomes(working, Installed), Verdict(outcome) = "passed"
  PROVE  Passes(working)
<1>1. applied # {} /\ FailedHooks(outcome) = {}
  BY DEF Verdict
<1>2. outcome.result = "ok" \/ ImportErrorOnly(outcome)
  BY <1>1 DEF FailedHooks
<1>3. QED BY <1>2 DEF Passes

LEMMA DeliveredVerdict ==
  ASSUME PipeInv, Delivered, ValidateAndReport
  PROVE  Delivered'
<1>1. /\ phase = "validate" /\ phase' \in {"analyze", "done"} /\ disk' = disk
      /\ todo' = todo \ {Min(todo)}
  BY DEF ValidateAndReport, NextFile
<1>2. PICK outcome \in Outcomes(working, Installed) :
        summaries' = [summaries EXCEPT ![file] = Summary(outcome)]
  BY DEF ValidateAndReport
<1>3. file \in FileSet /\ Min(todo) \in todo /\ DOMAIN summaries = FileSet
  BY <1>1, PlaceOfFile DEF PipeInv, StoreTypeOK
<1>4. /\ summaries'[file] = Summary(outcome)
      /\ \A f \in FileSet : f # file => summaries'[f] = summaries[f]
  BY <1>2, <1>3
<1>5. \A i \in todo' : summaries'[Files[i]].status = "none"
  <2> TAKE i \in todo'
  <2>1. i \in DOMAIN Files /\ i \in todo /\ Min(todo) \in DOMAIN Files /\ i # Min(todo)
    BY <1>1, <1>3 DEF PipeInv, StoreTypeOK
  <2>2. Files[i] \in FileSet /\ Files[i] # file
    BY <2>1, FilesAssumption DEF FileSet, file
  <2>3. QED BY <1>4, <2>1, <2>2 DEF Delivered
<1>6. ASSUME Summary(outcome).status = "passed", Summary(outcome).written
      PROVE  Passes(disk[file])
  <2>1. Verdict(outcome) = "passed" /\ ~dry /\ Changed /\ "write" \notin warned
    BY <1>6 DEF Summary
  <2>2. disk[file] = working
    BY <1>1, <2>1 DEF Delivered
  <2>3. QED BY <2>1, <2>2, VerdictIsEarned
<1>7. PassedFilesJudged'
  BY <1>1, <1>4, <1>6 DEF Delivered, PassedFilesJudged, Passes
<1>8. QED BY <1>1, <1>5, <1>7 DEF Delivered

LEMMA DeliveredStep ==
  ASSUME PipeInv, Delivered, [PipelineNext]_pipelineVars
  PROVE  Delivered'
<1>1. CASE Scan
  <2>1. /\ phase = "scan" /\ phase' \in {"analyze", "done"} /\ UNCHANGED <<disk, summaries>>
        /\ todo' \subseteq DOMAIN Files
    BY <1>1 DEF Scan
  <2>2. \A i \in DOMAIN Files : summaries[Files[i]].status = "none"
    BY <2>1 DEF Delivered, FileSet
  <2>3. QED BY <2>1, <2>2 DEF Delivered, PassedFilesJudged
<1>2. CASE Analyze
  <2>1. CASE ~Parses(texts[file])
    BY <1>2, <2>1, NothingDelivered DEF Analyze, PipelineError, NextFile
  <2>2. CASE Parses(texts[file])
    <3>1. phase' \in {"apply", "each", "batch"} /\ UNCHANGED <<disk, summaries, todo>>
      BY <1>2, <2>2 DEF Analyze, result
    <3>2. QED BY <3>1, NothingDelivered
  <2>3. QED BY <2>1, <2>2
<1>3. CASE GenerateBatch \/ GenerateForGap
  <2>1. phase' \in {"each", "apply"} /\ UNCHANGED <<disk, summaries, todo>>
    BY <1>3 DEF GenerateBatch, GenerateForGap, result
  <2>2. QED BY <2>1, NothingDelivered
<1>4. CASE ApplyChange \/ ProposalApplied \/ ApplyImports
  <2>1. phase' \in {"apply", "redetect"} /\ UNCHANGED <<disk, summaries, todo>>
    BY <1>4 DEF ApplyChange, ProposalApplied, ApplyImports, result
  <2>2. QED BY <2>1, NothingDelivered
<1>5. CASE Redetect
  <2>1. CASE Changed /\ ~Parses(working)
    BY <1>5, <2>1, NothingDelivered DEF Redetect, PipelineError, NextFile
  <2>2. CASE ~(Changed /\ ~Parses(working))
    BY <1>5, <2>2, NothingDelivered DEF Redetect, result
  <2>3. QED BY <2>1, <2>2
<1>6. CASE WriteBack
  BY <1>6, DeliveredWrite
<1>7. CASE ValidateAndReport
  BY <1>7, DeliveredVerdict
<1>8. CASE Rerun
  <2>1. /\ phase' = "scan" /\ UNCHANGED <<disk, todo>>
        /\ summaries' = [f \in FileSet |-> NoSummary]
    BY <1>8 DEF Rerun
  <2>2. \A f \in FileSet : summaries'[f].status = "none"
    BY <2>1 DEF NoSummary
  <2>3. \A i \in todo : Files[i] \in FileSet
    BY DEF PipeInv, StoreTypeOK, FileSet
  <2>4. QED BY <2>1, <2>2, <2>3 DEF Delivered, PassedFilesJudged
<1>9. CASE UNCHANGED pipelineVars
  BY <1>9 DEF Delivered, PassedFilesJudged, Changed, file, pipelineVars, patch, result
<1>10. QED
  BY <1>1, <1>2, <1>3, <1>4, <1>5, <1>6, <1>7, <1>8, <1>9 DEF PipelineNext, Stage

(* A file that was written and reported as passed has, as it stands on the  *)
(* disk, a way to run to its end or to an end that mentions an import       *)
(* error, although the pipeline writes a file before it judges it and takes *)
(* up the next one after that, and however often it is run (api.py,         *)
(* run_instrumentation, stages 6.6 and 7).                                  *)
THEOREM PassedFilesAreJudged == PipelineSpec => []PassedFilesJudged
<1>1. PipelineInit => Delivered
  <2> SUFFICES ASSUME PipelineInit PROVE Delivered
    OBVIOUS
  <2>1. phase = "scan" /\ todo = {} /\ \A f \in FileSet : summaries[f].status = "none"
    BY DEF PipelineInit, NoSummary
  <2>2. QED BY <2>1 DEF Delivered, PassedFilesJudged
<1>2. PipeInv /\ Delivered /\ [PipelineNext]_pipelineVars => Delivered'
  BY DeliveredStep
<1>3. Delivered => PassedFilesJudged
  BY DEF Delivered
<1>4. QED BY <1>1, <1>2, <1>3, PipeAlways, PTL DEF PipelineSpec
=============================================================================
