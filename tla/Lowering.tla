------------------------------- MODULE Lowering ------------------------------
(***************************************************************************)
(* From the tree of a Cookfile to the Lua it registers with (cook-luagen): *)
(* the usage checks, the mode each step lowers in, the placeholders of its *)
(* output patterns and body, and the statements written, in line order.    *)
(*                                                                         *)
(* The lowering runs twice: over the file alone when it is read, and over  *)
(* the file with the recipes of its imports once the workspace is loaded.  *)
(* Both may refuse; only the second one's text is executed.                *)
(*                                                                         *)
(* A statement is a record: what it is, the Lua local it declares, the     *)
(* terms its expressions read, and, for `cook.add_unit`, the unit.         *)
(***************************************************************************)
EXTENDS Cookfile

CONSTANT Imported   \* the recipes (as segments) each import alias reaches

VARIABLES
  item,    \* the next top-level item to lower
  step,    \* the next step of it; 0 before its header
  cooks,   \* the cook steps of the recipe lowered so far
  code     \* the statements written

vars == << text, pos, open, file, phase, item, step, cooks, code >>

----------------------------------------------------------------------------
(* Names in scope.                                                         *)

LocalNames == {file.recipes[i].name : i \in DOMAIN file.recipes}
ImportedNames ==
  UNION {{Name(file.imports[i].name.seg \o s) :
            s \in Imported[file.imports[i].name]} : i \in DOMAIN file.imports}
AllNames == LocalNames \cup ImportedNames
ProbeKeys == {file.probes[i].name : i \in DOMAIN file.probes}

----------------------------------------------------------------------------
(* Terms: what an emitted expression reads.                                *)

Term(op, name) == [op |-> op, name |-> name]
Local(v)  == Term("local", Name(<< v >>))
Door(n)   == Term("door", n)       \* cook.dep_output, dep_output_list, dep_output_member
VarOf(n)  == Term("var", n)        \* cook.require_var, at registration
ProbeAt(n) == Term("probe", n)     \* read at registration
Sigil(n)  == Term("sigil", n)      \* left in the command for the executor
Raw(n)    == Term("raw", n)        \* text that was never looked at

BuiltinTerms(b) ==
  CASE b.b = "in" -> {Local("_cook_in")}
    [] b.b = "out" -> {Local("_cook_out")}
    [] b.b = "out_N" -> {Local("_cook_outs")}

\* `resolved_to_lua`
TermsOf(r) ==
  CASE r.k = "builtin" -> BuiltinTerms(r)
    [] r.k = "recipe"  -> {Door(r.name)}
    [] r.k = "var"     -> {VarOf(r.name)}
    [] r.k = "probe"   -> {ProbeAt(r.name)}
    [] OTHER -> {}
Fails(r) == r.k \in {"error", "member"}

KeysRead(ids, ctx) == {Resolve(id, ctx).name : id \in {i \in ids : Resolve(i, ctx).k = "probe"}}
VarsRead(ids, ctx) == {Resolve(id, ctx).name : id \in {i \in ids : Resolve(i, ctx).k = "var"}}

\* `expand_command_template`: a probe stays in the text and joins the unit's
\* probes.
CommandFails(ids, ctx) == \E id \in ids : Fails(Resolve(id, ctx))
CommandTerms(ids, ctx) ==
  UNION {LET r == Resolve(id, ctx) IN
         IF r.k = "probe" THEN {Sigil(r.name)} ELSE TermsOf(r) : id \in ids}

\* `expand_member_fanout_template`: the member first, then the cascade; a
\* recipe member is joined on it.
FanIds(ids) == {id \in ids : ~IsMemberSigil(id)}
FanFails(ids, ctx) == \E id \in FanIds(ids) : Resolve(id, ctx).k = "error"
FanTerms(ids, ctx, literal) ==
  UNION {LET r == Resolve(id, ctx) IN
         IF IsMemberSigil(id) THEN {Local("item")}
         ELSE IF r.k = "member" THEN {Door(r.name), Local("item")}
         ELSE IF r.k = "probe" /\ literal THEN {Sigil(r.name)}
         ELSE TermsOf(r) : id \in ids}

\* `output_pattern_ident_to_lua`: an accessor on a recipe in scope is the
\* accessor of the loop's item.
PatternFails(ids, ctx) ==
  \E id \in ids : AccessorRef(id, ctx.names) = NoName /\ Fails(Resolve(id, ctx))
PatternTerms(ids, ctx) ==
  UNION {IF AccessorRef(id, ctx.names) # NoName THEN {Local("_cook_in")}
         ELSE TermsOf(Resolve(id, ctx)) : id \in ids}
PatternVars(ids, ctx) == VarsRead({id \in ids : AccessorRef(id, ctx.names) = NoName}, ctx)

\* `expand_plate_test_body`: a test reads its item from its own loop, and a
\* probe is refused.
TestFails(ids, ctx) ==
  \E id \in ids : Fails(Resolve(id, ctx)) \/ Resolve(id, ctx).k = "probe"
TestTerms(ids, ctx) ==
  UNION {LET r == Resolve(id, ctx) IN
         IF r.k = "builtin" /\ r.b = "in" THEN {Local("_test_in")} ELSE TermsOf(r) : id \in ids}

\* `expand_chore_shell_command`: a parameter shadows everything.
ChoreIds(ids, params) == {id \in ids : ~(id.idx = "-" /\ NameOf(id) \in params)}
ChoreFails(ids, params, ctx) == CommandFails(ChoreIds(ids, params), ctx)
ChoreTerms(ids, params, ctx) ==
  CommandTerms(ChoreIds(ids, params), ctx)
    \cup (IF ChoreIds(ids, params) = ids THEN {} ELSE {Local("__cook_params")})

----------------------------------------------------------------------------
(* Drivers and modes.                                                      *)

Ids(pattern) == ToSet(pattern.ids)

\* `output_pattern_kind_with_recipes`: own input first, then the first
\* accessor on a recipe.
Driver(pattern, names) ==
  LET refs == SelectSeq(pattern.ids, LAMBDA id : AccessorRef(id, names) # NoName) IN
  IF \E id \in Ids(pattern) : IsOwnInput(id) THEN [k |-> "own", name |-> NoName]
  ELSE IF refs # << >> THEN [k |-> "dep", name |-> AccessorRef(refs[1], names)]
  ELSE [k |-> "literal", name |-> NoName]

\* A Lua expression is never asked for its placeholders.
DriverOf(pattern, names) ==
  IF pattern.lua THEN [k |-> "literal", name |-> NoName] ELSE Driver(pattern, names)

Literal(st, names) == \A i \in DOMAIN st.outs :
                        ~st.outs[i].lua /\ Driver(st.outs[i], names).k = "literal"

\* `cook_step_mode_with_names`
Mode(st, names) ==
  CASE \E i \in DOMAIN st.outs : st.outs[i].lua -> "luaExpr"
    [] Len(st.outs) > 1 /\ Literal(st, names)   -> "block"
    [] Len(st.outs) > 1                         -> "oneToMany"
    [] Len(st.outs) = 1 /\ Literal(st, names)   -> "manyToOne"
    [] OTHER                                    -> "oneToOne"

Iteration(mode) == IF mode \in {"manyToOne", "block"} THEN "many" ELSE "each"

StepCtx(st, names) == Ctx(Iteration(Mode(st, names)), Len(st.outs), names, ProbeKeys)
PatternCtx(names)  == Ctx("each", 1, names, ProbeKeys)
FanCtx(st, names)  == Ctx("once", Len(st.outs), names, ProbeKeys)
TestCtx(names)     == Ctx("each", 0, names, ProbeKeys)
OnceCtx(names)     == Ctx("once", 0, names, ProbeKeys)

\* `detect_plate_test_mode`
TestMode(body) ==
  IF body.k = "shell"
    THEN IF \E id \in body.ids : IsOwnInput(id) THEN "each" ELSE "once"
    ELSE CASE {"input", "inputs"} \subseteq body.free -> "mixed"
           [] "input" \in body.free  -> "each"
           [] "inputs" \in body.free -> "many"
           [] OTHER -> "once"

----------------------------------------------------------------------------
(* The checks before any text is written.                                  *)

Cooks(r) == {i \in DOMAIN r.steps : r.steps[i].k = "cook"}
Tests(r) == {i \in DOMAIN r.steps : r.steps[i].k = "test"}
MemberSteps(r) == {i \in DOMAIN r.steps : r.steps[i].k = "members"}
FansOut(r) == MemberSteps(r) # {}
Source(r) == r.steps[CHOOSE i \in MemberSteps(r) : TRUE]
ByRecipe(r) == FansOut(r) /\ Source(r).share = "recipe"

\* `step_names_input`
BodyNamesInput(body) ==
  IF body.k = "lua" THEN {"input", "inputs"} \cap body.free # {}
  ELSE \E id \in body.ids : IsOwnInput(id)
NamesInput(st) ==
  \/ st.k = "cook" /\ \E i \in DOMAIN st.outs :
       ~st.outs[i].lua /\ \E id \in Ids(st.outs[i]) : IsOwnInput(id)
  \/ st.k \in {"cook", "test"} /\ BodyNamesInput(st.body)

\* A data member in a shell body outside single quotes.
UnsafeMember(st) ==
  st.k \in {"cook", "test"} /\ st.body.k = "shell" /\ ~st.body.quoted
    /\ Dotted(<< "in" >>) \in st.body.ids

FilesMembers(r) ==
  Source(r).share = "key" /\ \E i \in DOMAIN file.probes :
    file.probes[i].name = Source(r).src /\ file.probes[i].produce = "files"

Unbacked(r, i, names) ==
  /\ NamesInput(r.steps[i]) /\ ~FansOut(r)
  /\ \A j \in Cooks(r) : j >= i
  /\ ~(r.steps[i].k = "cook"
         /\ \E o \in DOMAIN r.steps[i].outs : Driver(r.steps[i].outs[o], names).k = "dep")

\* `validate_gather_usage`
GatherErr(r, names) ==
  LET gathers == \E i \in DOMAIN r.steps : r.steps[i].k = "gather" IN
  \/ gathers /\ \A i \in DOMAIN r.steps : ~NamesInput(r.steps[i])
  \/ ByRecipe(r) /\ (Source(r).src = r.name \/ Source(r).src \notin names)
  \/ FansOut(r) /\ ~ByRecipe(r) /\ ~FilesMembers(r)
       /\ \E i \in DOMAIN r.steps : UnsafeMember(r.steps[i])
  \/ ~gathers /\ r.inputs = << >> /\ \E i \in DOMAIN r.steps : Unbacked(r, i, names)

\* `check_output_pattern_no_bare_accessors`
BareInPattern(pattern, names) ==
  \E id \in Ids(pattern) :
    id.pre = "" /\ id.idx = "-" /\ Len(id.seg) = 1
      /\ (id.seg[1] \in Accessors \/ NameOf(id) \in names)

\* `check_multi_output_coherence`: every pattern against the first.
Incoherent(st, names) ==
  \E i \in DOMAIN st.outs :
    Driver(st.outs[i], names) # Driver(st.outs[1], names)

\* `validate_placeholders`
BodyErr(st, names) ==
  st.body.k = "shell" /\ \E id \in st.body.ids :
    Resolve(id, StepCtx(st, names)).k = "error" \/ AccessorRef(id, names) # NoName

\* `validate_accessor_placement`
AccessorErr(r, names) ==
  \/ \E i \in Cooks(r) : LET st == r.steps[i] IN
       \/ \E o \in DOMAIN st.outs : ~st.outs[o].lua /\ BareInPattern(st.outs[o], names)
       \/ Incoherent(st, names)
       \/ BodyErr(st, names)
  \/ \E i \in Tests(r) : r.steps[i].body.k = "shell"
       /\ \E id \in r.steps[i].body.ids : AccessorRef(id, names) # NoName

----------------------------------------------------------------------------
(* What a step's own lowering refuses.                                     *)

\* The cook steps before step i: the last of them is what it reads from.
Before(r, i) == Cardinality({j \in Cooks(r) : j < i})

\* A literal cook in a recipe that fans out collects; with nothing lowered
\* before it there is nothing to collect, and registration raises.
Collects(r, i, names) == FansOut(r) /\ Literal(r.steps[i], names)
Raises(r, names) ==
  FansOut(r) /\ \E i \in Cooks(r) : Before(r, i) = 0 /\ Literal(r.steps[i], names)
PerMember(r, i, names) == FansOut(r) /\ ~Literal(r.steps[i], names)

PlainCookErr(st, names) ==
  \/ Mode(st, names) \notin {"luaExpr", "block"}
       /\ \E o \in DOMAIN st.outs : PatternFails(Ids(st.outs[o]), PatternCtx(names))
  \/ st.body.k = "shell" /\ CommandFails(st.body.ids, StepCtx(st, names))

FanCookErr(st, names) ==
  \/ \E o \in DOMAIN st.outs : FanFails(Ids(st.outs[o]), FanCtx(st, names))
  \/ st.body.k = "shell" /\ FanFails(st.body.ids, FanCtx(st, names))

\* `validate_plate_test_placeholders`
TestSigilErr(id, names) ==
  \/ IsOutput(id)
  \/ id.pre = "" /\ id.idx = "-" /\ Len(id.seg) = 1 /\ id.seg[1] \in Accessors
  \/ LET r == Resolve(id, TestCtx(names)) IN r.k = "recipe" /\ r.acc # ""

PlainTestErr(r, i, names) ==
  LET body == r.steps[i].body IN
  \/ TestMode(body) = "mixed"
  \/ TestMode(body) \in {"each", "many"} /\ Before(r, i) = 0 /\ r.inputs = << >>
  \/ body.k = "shell"
       /\ (TestFails(body.ids, TestCtx(names)) \/ \E id \in body.ids : TestSigilErr(id, names))

FanTestErr(st, names) ==
  st.body.k = "shell"
    /\ (FanFails(st.body.ids, OnceCtx(names)) \/ KeysRead(FanIds(st.body.ids), OnceCtx(names)) # {})

LowerErr(r, i, names) ==
  CASE r.k = "chore" ->
         r.steps[i].k = "shell" /\ ChoreFails(r.steps[i].body.ids, ParamNames(r.params), OnceCtx(names))
    [] r.steps[i].k = "cook" ->
         IF PerMember(r, i, names) THEN FanCookErr(r.steps[i], names)
         ELSE ~(Collects(r, i, names) /\ Before(r, i) = 0) /\ PlainCookErr(r.steps[i], names)
    [] r.steps[i].k = "test" ->
         IF FansOut(r) THEN FanTestErr(r.steps[i], names) ELSE PlainTestErr(r, i, names)
    [] OTHER -> FALSE

Usable(names) == \A i \in DOMAIN file.recipes :
                   ~GatherErr(file.recipes[i], names) /\ ~AccessorErr(file.recipes[i], names)
Lowers(r, names) == \A i \in DOMAIN r.steps : ~LowerErr(r, i, names)
AllLower(names) ==
  /\ \A i \in DOMAIN file.recipes : Lowers(file.recipes[i], names)
  /\ \A i \in DOMAIN file.chores  : Lowers(file.chores[i], names)

----------------------------------------------------------------------------
(* Statements.                                                             *)

NoUnit == [k |-> "none", from |-> {}, line |-> 0, command |-> {}, env |-> {}, anyEnv |-> FALSE,
           probes |-> {}, seal |-> {}, share |-> "", member |-> FALSE, cached |-> TRUE]
St(s, decl, reads) ==
  [s |-> s, decl |-> decl, reads |-> reads, name |-> NoName, needs |-> {}, unit |-> NoUnit]

Loc(v, reads)  == St("local", v, reads)
Loop(v, reads) == St("open", v, reads)
Group == St("open", "", {})
Shut  == St("end", "", {})
Use(reads) == St("do", "", reads)
Add(reads, unit) == [St("unit", "", reads \cup unit.command) EXCEPT !.unit = unit]

OutVar == << "_cook_outputs_1", "_cook_outputs_2", "_cook_outputs_3", "_cook_outputs_4" >>
Insert(n, v) == Use({Local(OutVar[n]), Local(v)})
OutName(st) == IF Len(st.outs) > 1 THEN "_cook_outs" ELSE "_cook_out"

UnitOf(st, k) == [NoUnit EXCEPT !.k = k, !.from = {st.line}, !.line = st.line, !.seal = st.seal]

AllPatternIds(st) == UNION {Ids(st.outs[o]) : o \in DOMAIN st.outs}

\* Variant: only the command's own variables are consulted.
PlainUnitByCommand(st, names) ==
  LET ctx == StepCtx(st, names)
      unit == [UnitOf(st, "cook") EXCEPT !.share = st.share]
  IN IF st.body.k = "lua" THEN [unit EXCEPT !.env = st.body.vars]
     ELSE [unit EXCEPT !.command = CommandTerms(st.body.ids, ctx),
                       !.env = VarsRead(st.body.ids, ctx), !.probes = KeysRead(st.body.ids, ctx)]

\* The unit of a cook step outside a fan-out: the variables its patterns read
\* are consulted with those of its command, except where the outputs are
\* emitted as they were written.
PlainUnit(st, names) ==
  LET ctx == StepCtx(st, names)
      fromOuts == IF Mode(st, names) \in {"block", "luaExpr"} THEN {}
                  ELSE PatternVars(AllPatternIds(st), PatternCtx(names))
      unit == [UnitOf(st, "cook") EXCEPT !.share = st.share]
  IN IF st.body.k = "lua" THEN [unit EXCEPT !.env = st.body.vars]
     ELSE [unit EXCEPT !.command = CommandTerms(st.body.ids, ctx),
                       !.env = VarsRead(st.body.ids, ctx) \cup fromOuts,
                       !.probes = KeysRead(st.body.ids, ctx)]

FanUnit(st, names) ==
  LET ctx == FanCtx(st, names)
      ids == FanIds(st.body.ids)
      unit == [UnitOf(st, "cook") EXCEPT !.share = st.share, !.member = TRUE]
  IN IF st.body.k = "lua" THEN [unit EXCEPT !.env = st.body.vars]
     ELSE [unit EXCEPT !.command = FanTerms(st.body.ids, ctx, TRUE),
                       !.env = VarsRead(ids \cup FanIds(AllPatternIds(st)), ctx),
                       !.probes = KeysRead(ids, ctx)]

TestUnit(st, names) ==
  IF st.body.k = "lua" THEN [UnitOf(st, "test") EXCEPT !.anyEnv = TRUE]
  ELSE [UnitOf(st, "test") EXCEPT !.command = TestTerms(st.body.ids, TestCtx(names)),
                                  !.env = VarsRead(st.body.ids, TestCtx(names))]

FanTestUnit(st, names) ==
  LET unit == [UnitOf(st, "test") EXCEPT !.member = TRUE] IN
  IF st.body.k = "lua" THEN [unit EXCEPT !.anyEnv = TRUE]
  ELSE [unit EXCEPT !.command = FanTerms(st.body.ids, OnceCtx(names), FALSE),
                    !.env = VarsRead(FanIds(st.body.ids), OnceCtx(names))]

\* A Lua body of a chore begins on the line after its `>{`.
StepLine(st) == IF st.share = "block" THEN st.line + 1 ELSE st.line
ChoreUnit(r, st) ==
  [NoUnit EXCEPT !.k = "chore", !.from = {st.line}, !.line = StepLine(st), !.cached = FALSE]

----------------------------------------------------------------------------
(* The text of each kind of step.                                          *)

\* What a cook step with no driver of its own reads: the cook step before
\* it, else the recipe's files, else nothing.
Prior(r, n) ==
  IF n > 0 THEN {Local(OutVar[n])} ELSE IF r.inputs # << >> THEN {Local("inputs")} ELSE {}

\* What a step that loops iterates.
IterSource(r, st, n, names) ==
  LET d == DriverOf(st.outs[1], names) IN IF d.k = "dep" THEN {Door(d.name)} ELSE Prior(r, n)

OneToOneText(r, st, n, names) ==
  << Loop("_cook_in", IterSource(r, st, n, names)),
     Loc("_cook_out", PatternTerms(Ids(st.outs[1]), PatternCtx(names))),
     Add({Local("_cook_in"), Local("_cook_out")}, PlainUnit(st, names)),
     Insert(n + 1, "_cook_out"), Shut >>

OneToManyText(r, st, n, names) ==
  << Loop("_cook_in", IterSource(r, st, n, names)),
     Loc("_cook_outs", PatternTerms(AllPatternIds(st), PatternCtx(names))),
     Add({Local("_cook_in"), Local("_cook_outs")}, PlainUnit(st, names)),
     Insert(n + 1, "_cook_outs"), Shut >>

ManyToOneText(r, st, n, names) ==
  << Loc("_cook_in", Prior(r, n)),
     Loc("_cook_out", PatternTerms(Ids(st.outs[1]), PatternCtx(names))),
     Add(Prior(r, n) \cup {Local("_cook_out")}, PlainUnit(st, names)),
     Insert(n + 1, "_cook_out") >>

\* Several literal outputs: their text is emitted as written.
BlockText(r, st, n, names) ==
  << Loc("_cook_outs", {Raw(NameOf(id)) : id \in AllPatternIds(st)}),
     Loc("_cook_ins", Prior(r, n)), Loc("_cook_in", Prior(r, n)),
     Add({Local("_cook_ins"), Local("_cook_outs")}, PlainUnit(st, names)),
     Insert(n + 1, "_cook_outs") >>

\* A Lua expression names the output of each item.
LuaExprText(r, st, n, names) ==
  << Loop("_cook_in", Prior(r, n)), Loc("_cook_out", {}),
     Group, Loc("input", {Local("_cook_in")}), Use({Local("_cook_out"), Local("input")}), Shut,
     Add({Local("_cook_in"), Local("_cook_out")}, PlainUnit(st, names)),
     Insert(n + 1, "_cook_out"), Shut >>

PlainText(r, st, n, names) ==
  CASE Mode(st, names) = "oneToOne"  -> OneToOneText(r, st, n, names)
    [] Mode(st, names) = "oneToMany" -> OneToManyText(r, st, n, names)
    [] Mode(st, names) = "manyToOne" -> ManyToOneText(r, st, n, names)
    [] Mode(st, names) = "block"     -> BlockText(r, st, n, names)
    [] Mode(st, names) = "luaExpr"   -> LuaExprText(r, st, n, names)

\* One unit per member; a recipe's member is its own input, a data member
\* reads the extra globs.
FanText(r, st, n, names) ==
  LET extra == ~ByRecipe(r) /\ Source(r).extra # << >>
      input == IF ByRecipe(r) THEN {Local("item")}
               ELSE IF extra THEN {Local("_cook_member_inputs")} ELSE {}
  IN (IF extra THEN << Loc("_cook_member_inputs", {}) >> ELSE << >>) \o
     << Loop("item", {Local("_items")}),
        Loc(OutName(st), FanTerms(AllPatternIds(st), FanCtx(st, names), FALSE)),
        Add(input \cup {Local("item"), Local(OutName(st))}, FanUnit(st, names)),
        Insert(n + 1, OutName(st)), Shut >>

\* A test reads what the steps before it made, else the recipe's files ...
TestSource(r) ==
  << Loc("_test_src", {}) >>
  \o (IF r.inputs # << >> THEN << Use({Local("_test_src"), Local("inputs")}) >> ELSE << >>)

TestUnits(st, names) ==
  LET unit == TestUnit(st, names) IN
  IF TestMode(st.body) = "each"
  THEN << Loop("_test_in", {Local("_test_src")}),
          Add({Local("_test_in")}, [unit EXCEPT !.member = TRUE]), Shut >>
  ELSE << Add({Local("_test_src")}, unit) >>

\* ... and hands it on, if there is any.
TestText(r, st, n, names) ==
  TestSource(r) \o TestUnits(st, names)
  \o (IF n > 0 \/ r.inputs # << >> THEN << Use({Local("_test_src")}) >> ELSE << >>)

FanTestText(r, st, names) ==
  << Loop("item", {Local("_items")}), Loc("_test_src", {Local("item")}),
     Use(IF ByRecipe(r) THEN {Local("_test_src"), Local("item")} ELSE {}),
     Add({Local("_test_src"), Local("item")}, FanTestUnit(st, names)), Shut >>

----------------------------------------------------------------------------
(* The edges a recipe declares: the written ones, and one for each recipe its *)
(* placeholders name.                                                         *)

\* Variant: a recipe is looked for in the bodies only.
StepIdsOfBody(st) ==
  CASE st.k \in {"cook", "test", "shell"} -> IF st.body.k = "shell" THEN st.body.ids ELSE {}
    [] st.k = "members" /\ st.share = "recipe" -> {Dotted(st.src.seg)}
    [] OTHER -> {}

StepIds(st) ==
  CASE st.k = "cook" -> AllPatternIds(st) \cup (IF st.body.k = "shell" THEN st.body.ids ELSE {})
    [] st.k \in {"test", "shell"} -> IF st.body.k = "shell" THEN st.body.ids ELSE {}
    [] st.k = "members" /\ st.share = "recipe" -> {Dotted(st.src.seg)}
    [] OTHER -> {}

Inferred(r, names) == UNION {UNION {RecipeRef(id, names) : id \in StepIds(r.steps[i])} :
                               i \in DOMAIN r.steps}
Requires(r, names) == r.deps \cup Inferred(r, names)

RegisterSt(r, params) ==
  [St("register", params, {}) EXCEPT !.name = r.name, !.needs = Requires(r, AllNames)]

ItemsSource(r) == IF ByRecipe(r) THEN {Door(Source(r).src)} ELSE {}

RecipeHead(r) ==
  << RegisterSt(r, "") >>
  \o (IF r.inputs # << >> THEN << Loc("inputs", {}) >> ELSE << >>)
  \o (IF Raises(r, AllNames) THEN << St("raise", "", {}) >>
      ELSE IF FansOut(r) THEN << Loc("_items", ItemsSource(r)) >> ELSE << >>)

ChoreHead(r) ==
  << RegisterSt(r, "__cook_params") >>
  \o [i \in DOMAIN r.params |-> Loc("param", {Local("__cook_params")})]

----------------------------------------------------------------------------
(* The state machine.                                                      *)

\* Recipes, chores, blocks, calls and probes, in the order of their lines.
Items ==
  {[line |-> file.recipes[i].line, k |-> "recipe", i |-> i] : i \in DOMAIN file.recipes}
  \cup {[line |-> file.chores[i].line, k |-> "chore", i |-> i] : i \in DOMAIN file.chores}
  \cup {[line |-> file.registers[i], k |-> "raw", i |-> i] : i \in DOMAIN file.registers}
  \cup {[line |-> file.calls[i], k |-> "raw", i |-> i] : i \in DOMAIN file.calls}
  \cup {[line |-> file.probes[i].line, k |-> "probe", i |-> i] : i \in DOMAIN file.probes}

Current == CHOOSE x \in Items : Cardinality({y \in Items : y.line < x.line}) = item - 1
Body == IF Current.k = "recipe" THEN file.recipes[Current.i] ELSE file.chores[Current.i]

Init == ParseInit /\ item = 1 /\ step = 0 /\ cooks = 0 /\ code = << >>

Reads == Parse /\ UNCHANGED << item, step, cooks, code >>

\* The first pass, on the names of this file only; its text is thrown away.
LocalPass ==
  /\ phase = "check" /\ Usable(LocalNames) /\ AllLower(LocalNames)
  /\ phase' = "union" /\ UNCHANGED << text, pos, open, file, item, step, cooks, code >>

\* `use` bindings, then the config function: its unnamed block runs first.
Prelude ==
  [i \in DOMAIN file.uses |-> [St("use", "", {}) EXCEPT !.name = file.uses[i].name]]
  \o (LET blocks == SelectSeq(file.configs, LAMBDA b : b.name = NoName)
                      \o SelectSeq(file.configs, LAMBDA b : b.name # NoName)
      IN [i \in DOMAIN blocks |-> [St("config", "", {}) EXCEPT !.name = blocks[i].name]])

UnionPass ==
  /\ phase = "union" /\ Usable(AllNames) /\ AllLower(AllNames)
  /\ phase' = "emit" /\ code' = Prelude
  /\ UNCHANGED << text, pos, open, file, item, step, cooks >>

Emitting(k) == phase = "emit" /\ item <= Cardinality(Items) /\ Current.k = k
Write(stmts) == code' = code \o stmts /\ UNCHANGED << text, pos, open, file, phase >>
NextItem == item' = item + 1 /\ step' = 0 /\ cooks' = 0

EmitRaw == Emitting("raw") /\ Write(<< St("raw", "", {}) >>) /\ NextItem
EmitProbe ==
  /\ Emitting("probe")
  /\ Write(<< [St("probe", "", {}) EXCEPT !.name = file.probes[Current.i].name,
                                          !.needs = file.probes[Current.i].deps] >>)
  /\ NextItem

EmitHead ==
  /\ Emitting("recipe") \/ Emitting("chore")
  /\ step = 0 /\ step' = 1
  /\ Write(IF Current.k = "recipe" THEN RecipeHead(Body) ELSE ChoreHead(Body))
  /\ UNCHANGED << item, cooks >>

AtStep(k, kind) ==
  /\ Emitting(k) /\ step \in DOMAIN Body.steps /\ Body.steps[step].k = kind
Advance(n) == step' = n /\ UNCHANGED item

EmitCook ==
  /\ AtStep("recipe", "cook")
  /\ LET st == Body.steps[step]
         text_ == IF PerMember(Body, step, AllNames) THEN FanText(Body, st, cooks, AllNames)
                  ELSE IF Collects(Body, step, AllNames) /\ cooks = 0 THEN << >>
                  ELSE PlainText(Body, st, cooks, AllNames)
     IN Write(<< Loc(OutVar[cooks + 1], {}), Group >> \o text_ \o << Shut >>)
  /\ cooks' = cooks + 1 /\ Advance(step + 1)

EmitTest ==
  /\ AtStep("recipe", "test")
  /\ LET st == Body.steps[step]
         text_ == IF FansOut(Body) THEN FanTestText(Body, st, AllNames)
                  ELSE TestText(Body, st, cooks, AllNames)
     IN Write(<< Group >> \o text_ \o << Shut >>)
  /\ Advance(step + 1) /\ UNCHANGED cooks

\* A module call is written where it stands; `gather` has been emitted.
EmitOther ==
  /\ AtStep("recipe", "inline") \/ AtStep("recipe", "gather") \/ AtStep("recipe", "members")
  /\ Write(IF Body.steps[step].k = "inline" THEN << St("raw", "", {}) >> ELSE << >>)
  /\ Advance(step + 1) /\ UNCHANGED cooks

ParamEnv(r) == IF r.params = << >> THEN {} ELSE {Local("__cook_params")}

EmitChoreShell ==
  /\ AtStep("chore", "shell")
  /\ LET st == Body.steps[step] IN
     Write(<< Add(ParamEnv(Body),
                  [ChoreUnit(Body, st) EXCEPT
                     !.command = ChoreTerms(st.body.ids, ParamNames(Body.params), OnceCtx(AllNames))]) >>)
  /\ Advance(step + 1) /\ UNCHANGED cooks

\* Lua lines that follow one another are one unit, at the line of the first.
RECURSIVE LuaRun(_, _)
LuaRun(r, i) == IF i + 1 \in DOMAIN r.steps /\ r.steps[i + 1].k = "lua" THEN LuaRun(r, i + 1) ELSE i

EmitChoreLua ==
  /\ AtStep("chore", "lua")
  /\ LET last == LuaRun(Body, step)
         unit == [ChoreUnit(Body, Body.steps[step]) EXCEPT
                    !.from = {Body.steps[j].line : j \in step .. last}]
     IN Write(<< Add(ParamEnv(Body), unit) >>) /\ Advance(last + 1)
  /\ UNCHANGED cooks

EmitEnd ==
  /\ Emitting("recipe") \/ Emitting("chore")
  /\ step = Len(Body.steps) + 1
  /\ Write(<< Shut >>) /\ NextItem

Finish ==
  /\ phase = "emit" /\ item > Cardinality(Items)
  /\ phase' = "done" /\ UNCHANGED << text, pos, open, file, item, step, cooks, code >>

LoweringRefused ==
  \/ phase = "check" /\ ~(Usable(LocalNames) /\ AllLower(LocalNames))
  \/ phase = "union" /\ ~(Usable(AllNames) /\ AllLower(AllNames))
RefuseFile ==
  LoweringRefused /\ phase' = "refused"
    /\ UNCHANGED << text, pos, open, file, item, step, cooks, code >>

Lower ==
  \/ LocalPass \/ UnionPass \/ EmitRaw \/ EmitProbe \/ EmitHead \/ EmitCook \/ EmitTest
  \/ EmitOther \/ EmitChoreShell \/ EmitChoreLua \/ EmitEnd \/ Finish \/ RefuseFile

Next == Reads \/ Lower
Spec == Init /\ [][Next]_vars

----------------------------------------------------------------------------
(* Properties.                                                             *)

Done == phase = "done"
Units == {j \in DOMAIN code : code[j].s = "unit"}
Registers == {j \in DOMAIN code : code[j].s = "register"}

\* The registration a statement belongs to, and whether registration raises
\* before it is reached.
Owner(j) == CHOOSE o \in Registers : o <= j /\ \A p \in Registers : p <= j => p <= o
Raised(o) == \E j \in DOMAIN code : code[j].s = "raise" /\ j > o /\ Owner(j) = o

\* A name of the shape of an indexed output is read as one, whatever it
\* names; a recipe so named gets no edge.
IndexShaped(name) == IsOutput(Dotted(name.seg \o << "stem" >>))

(* A recipe whose emitted body asks for another's outputs, by whatever         *)
(* spelling of a placeholder and in whatever position, declares that recipe    *)
(* among its requirements: the classifier that infers edges                    *)
(* (dep_ref.rs) agrees with the expansions that write the calls                *)
(* (template.rs, cook_step.rs, test_step.rs).                                  *)
ReadsAreEdges ==
  Done => \A j \in DOMAIN code : \A t \in code[j].reads :
    t.op = "door" /\ ~IndexShaped(t.name) => t.name \in code[Owner(j)].needs

Opens(j) == code[j].s \in {"register", "open"}
Depth(j) == Cardinality({h \in 1 .. j : Opens(h)})
              - Cardinality({h \in 1 .. j : code[h].s = "end"})
InScopeAt(j) ==
  {code[h].decl : h \in {h \in 1 .. j - 1 : \A m \in h .. j - 1 : Depth(m) >= Depth(h)}}

(* No emitted expression reads a Lua local that is not in scope there: the     *)
(* checks before the text and the modes it is written in agree on which of     *)
(* `_cook_in`, `_cook_out`, `_cook_outs`, `item`, `inputs` a placeholder may   *)
(* become.  An output pattern that names its own output is the one exception   *)
(* (resolver.rs admits it), and nothing after a raise is reached.              *)
NothingUnbound ==
  Done => \A j \in DOMAIN code : \A t \in code[j].reads :
    t.op = "local" /\ ~Raised(Owner(j))
      /\ ~(t.name.seg[1] = "_cook_out" /\ code[j].decl \in {"_cook_out", "_cook_outs"})
    => t.name.seg[1] \in InScopeAt(j)

\* The lines of the body that the header on line p opens.
RECURSIVE BodyEnd(_)
BodyEnd(i) == IF i + 1 > Len(text) \/ Closes(text[i + 1]) THEN i ELSE BodyEnd(i + 1)
BodyLines(p, kinds) == {i \in p + 1 .. BodyEnd(p) : text[i].k \in kinds}

UnitsOf(o) == {j \in Units : Owner(j) = o}
HeaderLine(o) == CHOOSE p \in DOMAIN text :
                   TokenOf(text[p]) \in {"recipe", "chore"} /\ text[p].name = code[o].name

(* What was written is what is registered, from the text to the Lua: each      *)
(* `cook` and `test` line of a recipe becomes one call of `cook.add_unit`, in  *)
(* the order of the lines, and carries every determinant a `seal` line of its  *)
(* recipe names, wherever that line stands; each line of a chore is run once   *)
(* and in order, Lua lines that follow one another in one unit and no others;  *)
(* and equal inline determinants are registered once, different ones apart.    *)
EffectsKept ==
  Done =>
    /\ \A o \in Registers : ~Raised(o) =>
         LET p == HeaderLine(o)
             chore == text[p].k = "chore"
             lines == IF chore THEN {i \in p + 1 .. BodyEnd(p) : text[i].k # "blank"}
                      ELSE BodyLines(p, {"cook", "test"})
             sealed == UNION {SealRefs(Step(i)) : i \in BodyLines(p, {"seal"})}
         IN /\ UNION {code[j].unit.from : j \in UnitsOf(o)} = lines
            /\ \A j, h \in UnitsOf(o) : j < h =>
                 \A a \in code[j].unit.from, b \in code[h].unit.from : a < b
            /\ \A j \in UnitsOf(o) : Cardinality(code[j].unit.from) > 1 =>
                 \A i \in lines : (\E a, b \in code[j].unit.from : a <= i /\ i <= b) =>
                   i \in code[j].unit.from /\ text[i].k \in {"luaLine", "luaBlock"}
            /\ ~chore => \A j \in UnitsOf(o) :
                 code[j].unit.seal = sealed /\ Cardinality(code[j].unit.from) = 1
    /\ \A i \in DOMAIN text : text[i].k = "seal" /\ Step(i).inc # << >>
         /\ (\E p \in 1 .. i : TokenOf(text[p]) \in {"recipe", "probe"} /\ i \in BodyLines(p, {"seal"}))
         => Cardinality({j \in DOMAIN code : code[j].s = "probe" /\ code[j].name = AnonymousKey(Step(i))}) = 1

\* Where the outputs of a unit are computed.
OutputsOf(j) == {h \in 1 .. j : /\ code[h].decl \in {"_cook_out", "_cook_outs"}
                               /\ Local(code[h].decl) \in code[j].reads
                               /\ \A m \in h .. j : Depth(m) >= Depth(h)}

(* A cached unit is keyed on what its text was expanded from: every declared   *)
(* variable its command reads, or an output path computed beside a shell       *)
(* command reads, is in its consulted variables; every probe that is left in   *)
(* the command for the executor is in its probes; and no command holds a       *)
(* probe's value from the registration.                                        *)
KeyedOnReads ==
  Done => \A j \in Units : LET u == code[j].unit IN u.cached /\ ~u.anyEnv =>
    /\ \A t \in u.command :
         /\ t.op = "var" => t.name \in u.env
         /\ t.op = "sigil" => t.name \in u.probes
         /\ t.op # "probe"
    /\ u.command # {} => \A h \in OutputsOf(j) : \A t \in code[h].reads :
         t.op = "var" => t.name \in u.env

=============================================================================
