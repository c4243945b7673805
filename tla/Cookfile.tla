------------------------------- MODULE Cookfile ------------------------------
(***************************************************************************)
(* Reading a Cookfile (cook-lang): the lexer's lines, the parser that      *)
(* consumes them one declaration or body line at a time, and the tree it   *)
(* leaves.                                                                 *)
(*                                                                         *)
(* A line is a record: its leading word `k`, whether it starts at column   *)
(* 0, and what follows.  A body opened by `{` or `>{` belongs to the line  *)
(* that opens it.  Any refusal ends the reading: `cook` reports it and     *)
(* exits.                                                                  *)
(***************************************************************************)
EXTENDS Sigil, SequencesExt

CONSTANT Drafts   \* families of Cookfiles, each a sequence of lines

VARIABLES
  text,     \* the Cookfile
  pos,      \* the next line
  open,     \* the declaration whose body is being read
  file,     \* the tree so far
  phase     \* "lex", "parse", then the phases of Lowering; "refused" is final

----------------------------------------------------------------------------
(* Lines.                                                                  *)

Nobody == [k |-> "none", ids |-> {}, free |-> {}, vars |-> {}, quoted |-> TRUE]
Blank == [k |-> "blank", col0 |-> FALSE, name |-> NoName, deps |-> {}, params |-> << >>,
          inc |-> << >>, exc |-> << >>, outs |-> << >>, body |-> Nobody, tail |-> ""]

Sets  == {"files", "tools"}
Keyed == {"probe"} \cup Sets
Tops  == {"config", "register", "use", "import", "recipe", "chore"} \cup Keyed

\* The lexer knows a header only at column 0; indented, the same words are
\* the content of a body line.
TokenOf(l) == IF l.k \in Tops /\ ~l.col0 THEN "shell" ELSE l.k

\* A chore's parameters: the required ones first, at most one variadic and
\* that one last, no name twice.
ParamsOrdered(ps) ==
  \A i, j \in DOMAIN ps : i < j =>
    /\ ps[i].name # ps[j].name
    /\ ps[i].arity \notin {"plus", "star"}
    /\ ps[j].arity = "required" => ps[i].arity = "required"
ParamNames(ps) == {ps[i].name : i \in DOMAIN ps}

\* What the lexer refuses of a header: a dotted name, a parameter of a
\* recipe, a path that leaves the workspace.
Malformed(l) ==
  CASE TokenOf(l) = "recipe" -> Len(l.name.seg) > 1 \/ l.params # << >>
    [] TokenOf(l) = "chore"  -> Len(l.name.seg) > 1 \/ ~ParamsOrdered(l.params)
    [] TokenOf(l) \in Keyed  -> Len(l.name.seg) > 1
    [] TokenOf(l) = "use"    -> l.tail = "up"
    [] OTHER -> l.k = "arrows"

\* What closes a body: the next header, or a module call at column 0.
Closes(l) == TokenOf(l) \in Tops \/ (l.k = "call" /\ l.col0)

\* The last of the lines that continue the quoted operands of line i; a cook
\* step's run admits no `!"glob"` and stops where its body opens.
RECURSIVE RunFrom(_, _)
RunFrom(i, excludes) ==
  IF i < Len(text) /\ text[i + 1].k = "quoted" /\ text[i].body = Nobody
       /\ (excludes \/ text[i + 1].exc = << >>)
    THEN RunFrom(i + 1, excludes) ELSE i

LastLine(i) ==
  CASE text[i].k \in {"gatherGlobs", "seal"} -> RunFrom(i, TRUE)
    [] text[i].k = "cook" /\ text[i].outs # << >> /\ ~text[i].outs[1].lua -> RunFrom(i, FALSE)
    [] OTHER -> i

\* A line with the operands of its continuation lines.
Step(i) ==
  LET run == SubSeq(text, i, LastLine(i)) IN
  [text[i] EXCEPT !.inc  = FlattenSeq([j \in DOMAIN run |-> run[j].inc]),
                  !.exc  = FlattenSeq([j \in DOMAIN run |-> run[j].exc]),
                  !.outs = FlattenSeq([j \in DOMAIN run |-> run[j].outs]),
                  !.body = Last(run).body, !.tail = Last(run).tail]

\* The key of an anonymous file determinant: a fold of its operands and of
\* nothing else (`anonymous_seal_key`).
AnonymousKey(l) == [pre |-> "@seal:", seg |-> SetToSeq(ToSet(l.inc) \cup ToSet(l.exc))]
Anonymous(key) == key.pre = "@seal:"

----------------------------------------------------------------------------
(* The tree.                                                               *)

Declared(k, name, line) ==
  [k |-> k, name |-> name, line |-> line, deps |-> {}, params |-> << >>, inputs |-> << >>,
   excludes |-> << >>, steps |-> << >>, base |-> {}, produce |-> "none", inline |-> << >>,
   sealed |-> FALSE, covers |-> FALSE, values |-> << >>]
NoDecl == Declared("none", NoName, 0)

Node(k, line) ==
  [k |-> k, line |-> line, outs |-> << >>, body |-> Nobody, seal |-> {}, share |-> "",
   src |-> NoName, extra |-> << >>]

\* A probe as the registry receives it; `produce` tells the kinds apart.
Probe(name, deps, produce, line) ==
  [name |-> name, deps |-> deps, produce |-> produce, line |-> line]

NoFile == [configs |-> << >>, registers |-> << >>, calls |-> << >>, uses |-> << >>,
           imports |-> << >>, recipes |-> << >>, chores |-> << >>, probes |-> << >>,
           callables |-> {}]

Taken(name) == \E d \in file.callables : d.name = name
SeenRecipe == file.recipes # << >> \/ file.chores # << >> \/ open.k \in {"recipe", "chore"}
Claim(k, name) == [file EXCEPT !.callables = @ \cup {[k |-> k, name |-> name]}]

ParseInit ==
  /\ \E family \in Drafts : text \in family
  /\ pos = 1 /\ open = NoDecl /\ file = NoFile /\ phase = "lex"

Tokenize ==
  /\ phase = "lex" /\ \A i \in DOMAIN text : ~Malformed(text[i])
  /\ phase' = "parse" /\ UNCHANGED << text, pos, open, file >>

Reading(kinds) == phase = "parse" /\ pos <= Len(text) /\ open.k \in kinds
Here == text[pos]
Next1 == pos' = pos + 1 /\ UNCHANGED << text, phase >>

----------------------------------------------------------------------------
(* The top level.                                                          *)

\* Is the header, or the content, on this line refused where nothing is open?
TopRefused(l) ==
  CASE TokenOf(l) = "config" -> SeenRecipe \/ \E i \in DOMAIN file.configs : file.configs[i].name = l.name
    [] TokenOf(l) = "use" ->
         SeenRecipe \/ \E i \in DOMAIN file.uses :
                         file.uses[i].name = l.name /\ file.uses[i].target # l.tail
    [] TokenOf(l) = "import" ->
         SeenRecipe \/ l.name = Name(<< "var" >>) \/ l.tail = "up"
           \/ \E i \in DOMAIN file.imports : file.imports[i].name = l.name
    [] TokenOf(l) \in {"recipe", "chore"} -> Taken(l.name)
    [] TokenOf(l) \in Keyed -> Anonymous(l.name) \/ Taken(l.name)
    [] TokenOf(l) = "register" -> l.tail # ""
    [] OTHER -> l.k \notin {"call", "blank"}

Skip == Reading({"none", "recipe", "chore", "probe", "files", "tools"}) /\ Here.k = "blank"
          /\ Next1 /\ UNCHANGED << open, file >>

\* `use`, `import` and a module call at column 0 have no body of their own.
Declare ==
  /\ Reading({"none"}) /\ TokenOf(Here) \in {"use", "import", "call"} /\ ~TopRefused(Here)
  /\ file' = CASE Here.k = "use" ->
                    [file EXCEPT !.uses = Append(@, [name |-> Here.name, target |-> Here.tail])]
               [] Here.k = "import" ->
                    [file EXCEPT !.imports = Append(@, [name |-> Here.name, line |-> pos])]
               [] Here.k = "call" -> [file EXCEPT !.calls = Append(@, pos)]
  /\ Next1 /\ UNCHANGED open

\* A header with a body claims its name and opens it.
Header ==
  /\ Reading({"none"}) /\ TokenOf(Here) \in Tops \ {"use", "import"} /\ ~TopRefused(Here)
  /\ open' = [Declared(Here.k, Here.name, pos) EXCEPT !.deps = Here.deps, !.params = Here.params]
  /\ file' = IF Here.k \in {"config", "register"} THEN file ELSE Claim(Here.k, Here.name)
  /\ Next1

(* A body is closed by the next header, left in place, or by the end of the   *)
(* file.  Closing a recipe folds its seals into its cook and test steps, so   *)
(* where a seal stands in the body does not matter.                           *)
Sealable(steps) == \E i \in DOMAIN steps : steps[i].k \in {"cook", "test"}
CloseRefused ==
  CASE open.k = "recipe" -> open.base # {} /\ ~Sealable(open.steps)
    [] open.k = "probe"  -> open.produce = "none"
    [] open.k \in Sets   -> open.values = << >>
    [] OTHER -> FALSE

\* Variant: the tests of a sealed recipe are forgotten.
FoldSealIntoCooks(steps, base) ==
  [i \in DOMAIN steps |->
     IF steps[i].k = "cook" THEN [steps[i] EXCEPT !.seal = @ \cup base] ELSE steps[i]]

FoldSeal(steps, base) ==
  [i \in DOMAIN steps |->
     IF steps[i].k \in {"cook", "test"} THEN [steps[i] EXCEPT !.seal = @ \cup base] ELSE steps[i]]

AtEnd == phase = "parse" /\ open.k # "none" /\ (pos <= Len(text) => Closes(Here))

Close ==
  /\ AtEnd /\ ~CloseRefused
  /\ open' = NoDecl
  /\ file' =
       CASE open.k = "config"   -> [file EXCEPT !.configs = Append(@, [name |-> open.name, line |-> open.line])]
         [] open.k = "register" -> [file EXCEPT !.registers = Append(@, open.line)]
         [] open.k = "recipe"   ->
              [file EXCEPT !.recipes = Append(@, [open EXCEPT !.steps = FoldSeal(@, open.base)]),
                           !.probes = @ \o open.inline]
         [] open.k = "chore"    -> [file EXCEPT !.chores = Append(@, open)]
         [] open.k = "probe"    ->
              [file EXCEPT !.probes =
                 Append(@, Probe(open.name, open.deps, open.produce, open.line)) \o open.inline]
         [] open.k \in Sets     ->
              [file EXCEPT !.probes = Append(@, Probe(open.name, {}, open.k, open.line))]
  /\ UNCHANGED << text, pos, phase >>

\* Everything else before the close is the Lua of a config or register block;
\* a bare `NAME "value"` line in a config block is refused at the close.
LuaBody ==
  /\ Reading({"config", "register"}) /\ ~Closes(Here)
  /\ ~(open.k = "config" /\ Here.k = "bare")
  /\ Next1 /\ UNCHANGED << open, file >>

----------------------------------------------------------------------------
(* The body of a recipe.                                                   *)

Gathered == open.inputs # << >> \/ open.excludes # << >>
Members  == \E i \in DOMAIN open.steps : open.steps[i].k = "members"

\* The first line of a seal must carry an operand, and the step an include.
NoOperands(l) == l.deps = {} /\ l.inc = << >> /\ l.exc = << >>
OnlyExcludes(l) == l.inc = << >> /\ l.exc # << >>

\* `cook_mods`, the one trailing slot of a cook step; a test admits none.
ShareMods == {"", "local", "pinned", "nondet"}

RecipeRefused(l) ==
  CASE l.k = "seal" -> NoOperands(Here) \/ OnlyExcludes(l)
    [] l.k = "gatherGlobs" -> Members \/ Gathered \/ l.body # Nobody
    [] l.k \in {"gatherKey", "gatherRef"} -> Members \/ Gathered \/ l.tail # ""
    [] l.k = "cook" -> l.outs = << >> \/ (l.outs[1].lua /\ Len(l.outs) > 1)
                         \/ l.body = Nobody \/ l.tail \notin ShareMods
    [] l.k = "test" -> l.body = Nobody \/ l.tail # ""
    [] OTHER -> l.k \notin {"call", "blank"}

AddStep(node) == open' = [open EXCEPT !.steps = Append(@, node)]
Onward == pos' = LastLine(pos) + 1 /\ UNCHANGED << text, file, phase >>
InRecipe(k) == Reading({"recipe"}) /\ Here.k = k /\ ~Closes(Here) /\ ~RecipeRefused(Step(pos))

\* Operands of a `seal`: probe keys, and quoted globs that become one
\* anonymous probe.
SealRefs(l) == l.deps \cup (IF l.inc = << >> THEN {} ELSE {AnonymousKey(l)})
InlineProbe(l, line) ==
  IF l.inc = << >> THEN << >> ELSE << Probe(AnonymousKey(l), {}, "files", line) >>

SealStep ==
  /\ InRecipe("seal")
  /\ open' = [open EXCEPT !.base = @ \cup SealRefs(Step(pos)),
                          !.inline = @ \o InlineProbe(Step(pos), pos)]
  /\ Onward

GatherGlobs ==
  /\ InRecipe("gatherGlobs")
  /\ open' = [open EXCEPT !.inputs = Step(pos).inc, !.excludes = Step(pos).exc,
                          !.steps = Append(@, Node("gather", pos))]
  /\ Onward

GatherSource ==
  /\ (InRecipe("gatherKey") \/ InRecipe("gatherRef"))
  /\ AddStep([Node("members", pos) EXCEPT !.src = Here.name, !.extra = Here.inc,
                                          !.share = IF Here.k = "gatherRef" THEN "recipe" ELSE "key"])
  /\ Onward

CookStep ==
  /\ InRecipe("cook")
  /\ AddStep([Node("cook", pos) EXCEPT !.outs = Step(pos).outs, !.body = Step(pos).body,
                                       !.share = Step(pos).tail])
  /\ Onward

TestStep == InRecipe("test") /\ AddStep([Node("test", pos) EXCEPT !.body = Here.body]) /\ Onward

InlineLua == InRecipe("call") /\ AddStep([Node("inline", pos) EXCEPT !.body = Here.body]) /\ Onward

----------------------------------------------------------------------------
(* The body of a chore: shell first.  Only a line that carries a build        *)
(* step's own syntax is refused; `seal x` or `gather $<lib>` is a command.    *)

BannedStep(l) ==
  \/ l.k = "gatherGlobs"
  \/ l.k = "gatherKey" /\ l.inc = << >>
  \/ l.k = "cook" /\ l.outs # << >>
  \/ l.k = "test" /\ l.body # Nobody
ChoreRefused(l) == l.k \in {"removed", "sigil"} \/ BannedStep(l)

InChore == Reading({"chore"}) /\ ~Closes(Here) /\ ~ChoreRefused(Here)

ChoreShell ==
  /\ InChore /\ Here.k \notin {"luaLine", "luaBlock", "blank"}
  /\ AddStep([Node("shell", pos) EXCEPT !.body = [Here.body EXCEPT !.k = "shell"]])
  /\ Next1 /\ UNCHANGED file

ChoreLua ==
  /\ InChore /\ Here.k \in {"luaLine", "luaBlock"}
  /\ AddStep([Node("lua", pos) EXCEPT !.body = Here.body,
                                   !.share = IF Here.k = "luaBlock" THEN "block" ELSE ""])
  /\ Next1 /\ UNCHANGED file

----------------------------------------------------------------------------
(* The bodies of a probe and of a `files` or `tools` declaration.          *)

ProbeRefused(l) ==
  CASE l.k = "covers" -> open.produce # "none" \/ open.covers \/ l.inc = << >> \/ l.exc # << >>
    [] l.k = "seal"   -> open.produce # "none" \/ open.sealed \/ NoOperands(Here) \/ OnlyExcludes(l)
    [] l.k \in {"produce", "luaBlock"} -> open.produce # "none"
    [] OTHER -> l.k # "blank"

InProbe(k) == Reading({"probe"}) /\ Here.k = k /\ ~Closes(Here) /\ ~ProbeRefused(Step(pos))

ProbeCovers == InProbe("covers") /\ open' = [open EXCEPT !.covers = TRUE] /\ Onward
ProbeSeal ==
  /\ InProbe("seal")
  /\ open' = [open EXCEPT !.deps = @ \cup SealRefs(Step(pos)), !.sealed = TRUE,
                          !.inline = @ \o InlineProbe(Step(pos), pos)]
  /\ Onward
ProbeProduce ==
  /\ (InProbe("produce") \/ InProbe("luaBlock"))
  /\ open' = [open EXCEPT !.produce = IF Here.k = "luaBlock" THEN "lua" ELSE "shell"]
  /\ Onward

SetRefused(l) ==
  CASE l.k = "covers" -> open.k = "tools" \/ open.covers \/ l.inc = << >> \/ l.exc # << >>
    [] l.k = "quoted" -> open.k = "tools" \/ l.body # Nobody
    [] OTHER -> l.k # "blank" /\ ~(l.k = "names" /\ open.k = "tools")

SetLine ==
  /\ Reading(Sets) /\ ~Closes(Here) /\ Here.k # "blank" /\ ~SetRefused(Here)
  /\ open' = IF Here.k = "covers" THEN [open EXCEPT !.covers = TRUE]
             ELSE [open EXCEPT !.values = @ \o Here.inc, !.excludes = @ \o Here.exc]
  /\ Next1 /\ UNCHANGED file

----------------------------------------------------------------------------
(* The end: equal inline determinants are one probe, and a probe may not      *)
(* share its key with an import alias.                                        *)

DropRepeated(probes) ==
  LET kept(i) == ~Anonymous(probes[i].name)
                   \/ \A j \in 1 .. i - 1 : probes[j].name # probes[i].name
  IN  [j \in 1 .. Cardinality({i \in DOMAIN probes : kept(i)}) |->
         probes[CHOOSE i \in DOMAIN probes :
                  kept(i) /\ Cardinality({h \in 1 .. i : kept(h)}) = j]]

AliasTaken == \E i \in DOMAIN file.probes, j \in DOMAIN file.imports :
                file.probes[i].name = file.imports[j].name

Parsed ==
  /\ phase = "parse" /\ pos > Len(text) /\ open.k = "none" /\ ~AliasTaken
  /\ file' = [file EXCEPT !.probes = DropRepeated(@)]
  /\ phase' = "check" /\ UNCHANGED << text, pos, open >>

LineRefused ==
  /\ pos <= Len(text)
  /\ CASE open.k = "none"    -> TopRefused(Here)
       [] open.k # "none" /\ Closes(Here) -> CloseRefused
       [] open.k = "recipe"  -> RecipeRefused(Step(pos))
       [] open.k = "chore"   -> ChoreRefused(Here)
       [] open.k = "probe"   -> ProbeRefused(Step(pos))
       [] open.k \in Sets    -> SetRefused(Here)
       [] open.k = "config"  -> Here.k = "bare"
       [] OTHER -> FALSE

Refuse ==
  /\ \/ phase = "lex" /\ \E i \in DOMAIN text : Malformed(text[i])
     \/ phase = "parse" /\ LineRefused
     \/ phase = "parse" /\ (pos > Len(text) /\ (IF open.k = "none" THEN AliasTaken ELSE CloseRefused))
  /\ phase' = "refused" /\ UNCHANGED << text, pos, open, file >>

Parse ==
  \/ Tokenize \/ Skip \/ Declare \/ Header \/ Close \/ LuaBody
  \/ SealStep \/ GatherGlobs \/ GatherSource \/ CookStep \/ TestStep \/ InlineLua
  \/ ChoreShell \/ ChoreLua
  \/ ProbeCovers \/ ProbeSeal \/ ProbeProduce \/ SetLine
  \/ Parsed \/ Refuse

=============================================================================
