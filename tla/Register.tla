------------------------------ MODULE Register -----------------------------
(***************************************************************************)
(* The register phase of one Cookfile: cook-register/src/engine.rs, with   *)
(* the cook.* calls its bodies make.  Bodies are run on demand.  A body    *)
(* may force another with cook.require_recipe, cook.import or              *)
(* cook.dep_order, so the driver is re-entered while bodies are running,   *)
(* and stack is the call stack of that recursion, innermost frame first.   *)
(* What a body calls and in which order is Lua's to choose and is left     *)
(* open, up to MaxCalls calls that have an effect; so is whether it catches *)
(* an error (pcall).  Names are abstract, so the order of a sort by name   *)
(* is any order that respects the edges.                                   *)
(***************************************************************************)
EXTENDS Capture

CONSTANTS
  Cookfiles,    \* the Cookfiles under study, with the request made of each
  NoName,       \* no target
  NoKey,        \* the member source of a recipe that fans out over no probe
  MaxCalls      \* bound: calls with an effect that Lua makes in one pass

(* cook.recipe, cook.chore and the surface forms.  source is the probe a     *)
(* member fan-out is driven by.                                              *)
Declaration ==
  [name : Name, chore : BOOLEAN, requires : SUBSET Name, params : Seq(Param),
   source : Key \cup {NoKey}]

ProbeDeclaration == [requires : SUBSET Key, files : SUBSET Path]

(* recipes and probes are what the top-level chunk declares, in order; late  *)
(* and hidden what bodies may declare while they run; calls the tables they  *)
(* may hand to cook.add_unit; api the functions they use.  seeds are the     *)
(* names the workspace found reachable through other Cookfiles.              *)
CookfileRecord ==
  [recipes : Seq(Declaration), probes : UNION {[K -> ProbeDeclaration] : K \in SUBSET Key},
   late : SUBSET Declaration, hidden : UNION {[K -> ProbeDeclaration] : K \in SUBSET Key},
   target : Name \cup {NoName}, argc : Nat, seeds : SUBSET Name,
   calls : SUBSET CallRecord,
   api : SUBSET {"require", "import", "order", "group", "read", "output", "late",
                 "probe", "complete", "exec", "raise"}]

ASSUME CookfilesAssumption == Cookfiles \subseteq CookfileRecord
ASSUME NoNameAssumption == NoName \notin Name
ASSUME NoKeyAssumption == NoKey \notin Key
ASSUME MaxCallsAssumption == MaxCalls \in Nat

VARIABLES
  file,        \* the Cookfile and the request, fixed
  phase,       \* "load", "prepass", "bodies", "close", "drain", "done" or "failed"
  recipes,     \* the shared list cook.recipe pushes to
  probes,      \* ProbeRegistry
  reach,       \* reachable_from_target
  seeded,      \* the names the seed loop has visited
  visit,       \* BodyDriver.visit
  path,        \* BodyDriver.path
  stack,       \* the calls in progress, innermost first
  ret,         \* what the call that just returned gave back
  slot,        \* body_slot
  names,       \* the names registered, in order, and
  entry,       \*   the requires and units of each (names, units_by_recipe)
  terminal,    \* terminal_outputs
  store,       \* RegisterProbeResolver: the keys resolved
  exports,     \* names some body exported
  queued,      \* finalizers queued and
  cursor,      \*   called
  calls,       \* calls made so far
  runs,        \* history: how often each body was called
  produced,    \* history: how often each probe was produced
  cycle        \* history: the cycle last reported and the edges it was made of

registry == <<recipes, probes>>
driver == <<visit, path, stack, ret>>
results == <<names, entry, terminal>>
resolver == <<store, produced>>
finalizers == <<queued, cursor>>
history == <<runs, cycle>>
vars == <<file, phase, registry, reach, seeded, driver, slot, results, resolver, exports,
          finalizers, calls, history>>

----------------------------------------------------------------------------
With(f, x, y) == [z \in DOMAIN f \cup {x} |-> IF z = x THEN y ELSE f[z]]

Empty == [x \in {} |-> 0]

Declared(n) == \E i \in DOMAIN recipes : recipes[i].name = n

(* The first entry of that name, as `iter().find` returns it. *)
DeclOf(n) ==
  recipes[CHOOSE i \in DOMAIN recipes :
            recipes[i].name = n /\ \A j \in DOMAIN recipes : recipes[j].name = n => i <= j]

StaticEdges == [n \in {recipes[i].name : i \in DOMAIN recipes} |-> DeclOf(n).requires]

(* reachable_from: the seeds the graph knows, and all they reach in it. *)
ReachFrom(edges, from) ==
  LET grown[k \in Nat] ==
        IF k = 0 THEN from \cap DOMAIN edges
        ELSE grown[k - 1] \cup
               ((UNION {edges[n] : n \in grown[k - 1]}) \cap DOMAIN edges)
  IN grown[Cardinality(DOMAIN edges)]

Cyclic(edges) == \E n \in DOMAIN edges : n \in ReachFrom(edges, edges[n])

MergedEdges == [n \in DOMAIN entry |-> entry[n].requires]

Collides ==
  \E i, j \in DOMAIN recipes : i # j /\ recipes[i].name = recipes[j].name

ProbeEdges == [k \in DOMAIN probes |-> probes[k].requires]

----------------------------------------------------------------------------
(* The frames of the call stack.  "walk" is ensure_invoked with the static   *)
(* requires of who still to visit, again when it only pushes the force down  *)
(* through a body that ran; "body" is the recipe body; "need" and "produce"  *)
(* are a probe's requires and its produce; "callback" is a finalizer.        *)
(* saved is the slot put aside for the call; open counts the step groups     *)
(* whose function is running, and owed is the rest of a step group's         *)
(* dep_order; wait is the call the Lua of the frame is in.                   *)
Frame(at, who, forced, again, todo) ==
  [at |-> at, who |-> who, forced |-> forced, again |-> again, todo |-> todo,
   saved |-> NoSlot, open |-> 0, owed |-> {}, wait |-> <<"none", NoName>>]

Top == Head(stack)
Below == Tail(stack)
Ready == stack # <<>> /\ ret # "err"
Raised == stack # <<>> /\ ret = "err"
Idle == stack = <<>> /\ ret # "err"
At(kind) == stack # <<>> /\ Top.at = kind

LuaFrames == {"body", "produce", "callback"}
NoCall == <<"none", NoName>>
InLua == Ready /\ Top.at \in LuaFrames /\ Top.wait = NoCall /\ Top.owed = {}
Innermost == {i \in DOMAIN stack : /\ stack[i].at \in LuaFrames
                                   /\ \A j \in 1..(i - 1) : stack[j].at \notin LuaFrames}
InProgress == {stack[i].who : i \in {j \in DOMAIN stack : stack[j].at = "need"}}

(* The calls the bodies on a stack wait in, as edges. *)
Following(frames) ==
  {<<frames[i].who, frames[i].wait[2]>> :
     i \in {j \in DOMAIN frames : frames[j].at = "body" /\ frames[j].wait # NoCall}}

Return(r) == stack' = Below /\ ret' = r

----------------------------------------------------------------------------
(* BodyDriver::ensure_invoked.  below is the stack to come back to. *)

(* Variant: a body that is still running counts as a completed visit. *)
DoneOrVisiting(n, forced) ==
  visit[n] \in {"forced", "visiting"} \/ (visit[n] \in {"ran", "skipped"} /\ ~forced)

(* Variant: a skip counts as a completed visit. *)
DoneOrSkipped(n, forced) ==
  visit[n] \in {"forced", "skipped"} \/ (visit[n] = "ran" /\ ~forced)

Done(n, forced) == visit[n] = "forced" \/ (visit[n] \in {"ran", "skipped"} /\ ~forced)

ReportCycle(n, below) ==
  LET from == CHOOSE i \in DOMAIN path :
                path[i] = n /\ \A j \in DOMAIN path : path[j] = n => i <= j
  IN [names |-> Append(SubSeq(path, from, Len(path)), n), along |-> Following(below)]

(* Pushing the force down: the name is on path, its state is left alone. *)
PushDown(n, below) ==
  /\ stack' = <<Frame("walk", n, TRUE, TRUE, DeclOf(n).requires)>> \o below
  /\ path' = Append(path, n)
  /\ ret' = "none"
  /\ UNCHANGED <<visit, cycle>>

Enter(n, forced, below) ==
  \/ /\ Done(n, forced)
     /\ stack' = below
     /\ ret' = "ok"
     /\ UNCHANGED <<visit, path, cycle>>
  \/ /\ ~Done(n, forced)
     /\ visit[n] = "ran"
     /\ PushDown(n, below)
  \/ /\ visit[n] = "failed"
     /\ stack' = below
     /\ ret' = "err"
     /\ UNCHANGED <<visit, path, cycle>>
  \/ /\ visit[n] = "visiting"
     /\ stack' = below
     /\ ret' = "err"
     /\ cycle' = ReportCycle(n, below)
     /\ UNCHANGED <<visit, path>>
  \/ /\ ~Done(n, forced)
     /\ visit[n] \in {"new", "skipped"}
     /\ visit' = [visit EXCEPT ![n] = "visiting"]
     /\ path' = Append(path, n)
     /\ stack' = <<Frame("walk", n, forced, FALSE, DeclOf(n).requires)>> \o below
     /\ ret' = "none"
     /\ UNCHANGED cycle

(* Variant: a name stays on path when its visit is over. *)
NotPopped == path' = path

PopPath == path' = SubSeq(path, 1, Len(path) - 1)

(* ensure_static_requires: a name this Cookfile does not register belongs to *)
(* another one and is passed over.                                           *)
WalkDep ==
  /\ Ready /\ At("walk")
  /\ \E dep \in Top.todo :
       LET rest == <<[Top EXCEPT !.todo = @ \ {dep}]>> \o Below
       IN IF Declared(dep) THEN Enter(dep, Top.forced, rest)
          ELSE stack' = rest /\ ret' = "none" /\ UNCHANGED <<visit, path, cycle>>
  /\ UNCHANGED <<file, phase, registry, reach, seeded, slot, results, resolver, exports,
                 finalizers, calls, runs>>

WalkFails ==
  /\ Raised /\ At("walk")
  /\ visit' = IF Top.again THEN visit ELSE [visit EXCEPT ![Top.who] = "failed"]
  /\ PopPath
  /\ Return("err")
  /\ UNCHANGED <<file, phase, registry, reach, seeded, slot, results, resolver, exports,
                 finalizers, calls, history>>

ForceReached ==
  /\ Ready /\ At("walk")
  /\ Top.todo = {} /\ Top.again
  /\ visit' = [visit EXCEPT ![Top.who] = "forced"]
  /\ PopPath
  /\ Return("ok")
  /\ UNCHANGED <<file, phase, registry, reach, seeded, slot, results, resolver, exports,
                 finalizers, calls, history>>

----------------------------------------------------------------------------
(* invoke_body.  Its requires walked, a body is called, skipped or refused.  *)
HasTarget == file.target # NoName
IsTarget(n) == file.target = n

(* A member fan-out over a probe the pre-pass did not evaluate. *)
UnfedFanout(n) == HasTarget /\ n \notin reach /\ DeclOf(n).source # NoKey

(* Variant: a force does not count as asking for a chore. *)
SpeculativeForced(n, forced) ==
  DeclOf(n).chore /\ ~IsTarget(n) /\ n \notin reach

(* A chore nobody asked for: not the target, not reachable, not forced. *)
Speculative(n, forced) ==
  DeclOf(n).chore /\ ~IsTarget(n) /\ ~forced /\ n \notin reach

Refuses(n, forced) ==
  \/ UnfedFanout(n) /\ forced
  \/ ~UnfedFanout(n) /\ DeclOf(n).chore /\ ~Speculative(n, forced)
       /\ ~BindsArgv(DeclOf(n).params, IF IsTarget(n) THEN file.argc ELSE 0)
  \/ ~UnfedFanout(n) /\ ~DeclOf(n).chore /\ IsTarget(n) /\ file.argc > 0

Skips(n, forced) == UnfedFanout(n) \/ Speculative(n, forced)

(* Variant: the entry of a recipe evaluated after a skip is a second one. *)
RegisterAgain(n, requires, units, ran) ==
  /\ names' = Append(names, n)
  /\ entry' = With(entry, n, [requires |-> requires, units |-> units, ran |-> ran])

(* The placeholder a skip leaves is replaced: a name keeps one entry. *)
Register(n, requires, units, ran) ==
  /\ names' = IF n \in DOMAIN entry THEN names ELSE Append(names, n)
  /\ entry' = With(entry, n, [requires |-> requires, units |-> units, ran |-> ran])

WalkDone(kind) ==
  /\ Ready /\ At("walk")
  /\ Top.todo = {} /\ ~Top.again
  /\ CASE kind = "refuse" -> Refuses(Top.who, Top.forced)
       [] kind = "skip" -> ~Refuses(Top.who, Top.forced) /\ Skips(Top.who, Top.forced)
       [] kind = "call" -> ~Refuses(Top.who, Top.forced) /\ ~Skips(Top.who, Top.forced)

RefuseBody ==
  /\ WalkDone("refuse")
  /\ visit' = [visit EXCEPT ![Top.who] = "failed"]
  /\ PopPath
  /\ Return("err")
  /\ UNCHANGED <<file, phase, registry, reach, seeded, slot, results, resolver, exports,
                 finalizers, calls, history>>

SkipBody ==
  /\ WalkDone("skip")
  /\ Register(Top.who, DeclOf(Top.who).requires, <<>>, FALSE)
  /\ visit' = [visit EXCEPT ![Top.who] = "skipped"]
  /\ PopPath
  /\ Return("ok")
  /\ UNCHANGED <<file, phase, registry, reach, seeded, slot, terminal, resolver, exports,
                 finalizers, calls, history>>

(* Variant: the slot of the caller is not put aside. *)
SavedNothing == NoSlot

(* The slot of the caller is put aside and a fresh one opened. *)
SavedSlot == slot

CallBody ==
  /\ WalkDone("call")
  /\ stack' = <<[Frame("body", Top.who, Top.forced, FALSE, {}) EXCEPT !.saved = SavedSlot]>>
                \o Below
  /\ slot' = NewSlot(Top.who, DeclOf(Top.who).chore)
  /\ runs' = [runs EXCEPT ![Top.who] = @ + 1]
  /\ ret' = "none"
  /\ UNCHANGED <<file, phase, registry, reach, seeded, visit, path, results, resolver, exports,
                 finalizers, calls, cycle>>

(* The body returned: its captures are checked and recorded. *)
DrainRefused == OutputsRefused(slot) \/ AfterUnresolved(slot)

BodyReturns ==
  /\ InLua /\ At("body") /\ Top.open = 0
  /\ ~DrainRefused
  /\ LET n == Top.who
     IN /\ Register(n, DeclOf(n).requires \cup slot.requires, slot.units, TRUE)
        /\ terminal' = With(terminal, n, slot.lastOuts)
        /\ visit' = [visit EXCEPT ![n] = IF Top.forced THEN "forced" ELSE "ran"]
  /\ slot' = Top.saved
  /\ PopPath
  /\ Return("ok")
  /\ UNCHANGED <<file, phase, registry, reach, seeded, resolver, exports, finalizers, calls,
                 history>>

BodyFails ==
  /\ At("body") /\ Top.open = 0
  /\ \/ Raised /\ Top.wait = NoCall
     \/ InLua /\ DrainRefused
  /\ visit' = [visit EXCEPT ![Top.who] = "failed"]
  /\ slot' = Top.saved
  /\ PopPath
  /\ Return("err")
  /\ UNCHANGED <<file, phase, registry, reach, seeded, results, resolver, exports, finalizers,
                 calls, history>>

----------------------------------------------------------------------------
(* The calls Lua makes.  A call that refuses its arguments before it changes *)
(* anything is the same as raising, or as nothing when pcall catches it.     *)
Calls(api) ==
  /\ InLua
  /\ api \in file.api
  /\ calls < MaxCalls
  /\ calls' = calls + 1

Writes(api) ==
  /\ Calls(api)
  /\ slot # NoSlot
  /\ ret' = "none"
  /\ UNCHANGED <<file, phase, recipes, reach, seeded, visit, path, results, resolver,
                 finalizers, history>>

Author == stack[CHOOSE i \in Innermost : TRUE].who

CallExec ==
  /\ Writes("exec")
  /\ \E payload \in {"shell", "interactive"} : slot' = Exec(slot, Author, payload)
  /\ UNCHANGED <<stack, probes, exports>>

CallAddUnit ==
  /\ \E c \in file.calls :
       /\ calls < MaxCalls /\ InLua /\ slot # NoSlot
       /\ ~EarlyRefusal(slot, c)
       /\ slot' = IF LateRefusal(c) THEN TakePending(slot) ELSE AddUnit(slot, Author, c)
  /\ calls' = calls + 1
  /\ ret' = "none"
  /\ UNCHANGED <<file, phase, registry, reach, seeded, visit, path, stack, results, resolver,
                 exports, finalizers, history>>

(* cook.export, and cook.passthrough with the outputs another recipe left. *)
CallExport ==
  /\ Writes("import")
  /\ Author \notin exports
  /\ exports' = exports \cup {Author}
  /\ UNCHANGED <<stack, slot, probes>>

CallDepOutput ==
  /\ Writes("output")
  /\ \E n \in DOMAIN terminal :
       \/ slot' = DepOutput(slot, n, terminal[n])
       \/ slot' = Passthrough(slot, terminal[n])
       \/ \E m \in Member :
            /\ MemberOutputs([units |-> entry[n].units], m) # {}
            /\ slot' = DepOutputMember(slot, n, MemberOutputs([units |-> entry[n].units], m))
  /\ UNCHANGED <<stack, probes, exports>>

(* cook.probe: a key may be declared once; inside a body it is a unit too.   *)
CallProbe ==
  /\ Calls("probe")
  /\ \E k \in DOMAIN file.hidden \ DOMAIN probes :
       /\ probes' = With(probes, k, file.hidden[k])
       /\ slot' = IF slot = NoSlot THEN slot
                  ELSE CaptureProbe(slot, Author, file.hidden[k].requires)
  /\ ret' = "none"
  /\ UNCHANGED <<file, phase, recipes, reach, seeded, visit, path, stack, results, resolver,
                 exports, finalizers, history>>

(* cook.recipe from a body: the list takes it, no check is made again. *)
CallRecipe ==
  /\ Calls("late")
  /\ \E d \in file.late : recipes' = Append(recipes, d)
  /\ ret' = "none"
  /\ UNCHANGED <<file, phase, probes, reach, seeded, visit, path, stack, slot, results, resolver,
                 exports, finalizers, history>>

CallOnComplete ==
  /\ Calls("complete")
  /\ queued' = queued + 1
  /\ ret' = "none"
  /\ UNCHANGED <<file, phase, registry, reach, seeded, visit, path, stack, slot, results,
                 resolver, exports, cursor, history>>

----------------------------------------------------------------------------
(* The calls that force another body.  Each is refused outside a body, for a *)
(* name this Cookfile does not register, and, for cook.require_recipe, for   *)
(* the recipe itself.  cook.import forces only what is not exported yet.     *)
Waits(api, n) == <<[Top EXCEPT !.wait = <<api, n>>]>> \o Below

Forces(api, n) ==
  /\ Declared(n)
  /\ Enter(n, TRUE, Waits(api, n))
  /\ UNCHANGED <<file, phase, registry, reach, seeded, slot, results, resolver, exports,
                 finalizers, runs>>

CallRequire ==
  /\ Calls("require")
  /\ slot # NoSlot
  /\ \E n \in Name \ {slot.recipe} : Forces("require", n)

CallImport ==
  /\ Calls("import")
  /\ slot # NoSlot
  /\ \E n \in Name \ exports : Forces("import", n)

CallDepOrder ==
  /\ Calls("order")
  /\ slot # NoSlot
  /\ \E n \in Name : Forces("order", n)

(* cook.step_group: the group is open before its dep_order is forced. *)
CallStepGroup ==
  /\ Calls("group")
  /\ slot # NoSlot
  /\ slot' = OpenGroup(slot)
  /\ \E ns \in {{}} \cup {{n} : n \in Name} :
       stack' = IF ns = {} THEN <<[Top EXCEPT !.open = @ + 1]>> \o Below
                ELSE <<[Top EXCEPT !.owed = ns]>> \o Below
  /\ ret' = "none"
  /\ UNCHANGED <<file, phase, registry, reach, seeded, visit, path, results, resolver, exports,
                 finalizers, history>>

GroupForces ==
  /\ Ready /\ At("body")
  /\ Top.wait = NoCall /\ Top.owed # {}
  /\ \E n \in Top.owed :
       IF Declared(n) THEN Enter(n, TRUE, Waits("group", n))
       ELSE /\ ret' = "err"
            /\ stack' = Waits("group", n)
            /\ UNCHANGED <<visit, path, cycle>>
  /\ UNCHANGED <<file, phase, registry, reach, seeded, slot, results, resolver, exports,
                 finalizers, calls, runs>>

(* What a call that came back does to the slot it came back to. *)
Effect(api, n) ==
  CASE api = "require" -> Require(slot, n)
    [] api \in {"order", "group"} -> DepOrder(slot, n)
    [] OTHER -> slot

CallReturns ==
  /\ Ready /\ Top.at \in LuaFrames /\ Top.wait # NoCall
  /\ LET api == Top.wait[1]  n == Top.wait[2]
         owed == Top.owed \ {n}
     IN /\ slot' = Effect(api, n)
        /\ stack' = <<[Top EXCEPT !.wait = NoCall, !.owed = owed,
                         !.open = IF api = "group" /\ owed = {} THEN @ + 1 ELSE @]>> \o Below
  /\ ret' = "none"
  /\ UNCHANGED <<file, phase, registry, reach, seeded, visit, path, results, resolver, exports,
                 finalizers, calls, history>>

(* A call raised: pcall catches it there, or it goes on up.  A group whose   *)
(* dep_order raised has not run its function and stays open.                 *)
CallRaises ==
  /\ Raised /\ Top.at \in LuaFrames /\ Top.wait # NoCall
  /\ stack' = <<[Top EXCEPT !.wait = NoCall, !.owed = {}]>> \o Below
  /\ ret' \in {"none", "err"}
  /\ UNCHANGED <<file, phase, registry, reach, seeded, visit, path, slot, results, resolver,
                 exports, finalizers, calls, history>>

LuaRaises ==
  /\ Calls("raise")
  /\ ret' = "err"
  /\ UNCHANGED <<file, phase, registry, reach, seeded, visit, path, stack, slot, results,
                 resolver, exports, finalizers, history>>

(* The function of a step group is over, by returning or by raising. *)
GroupEnds ==
  /\ At("body") /\ Top.open > 0 /\ Top.wait = NoCall /\ Top.owed = {}
  /\ slot' = CloseGroup(slot)
  /\ stack' = <<[Top EXCEPT !.open = @ - 1]>> \o Below
  /\ ret' \in IF Raised THEN {"none", "err"} ELSE {"none"}
  /\ UNCHANGED <<file, phase, registry, reach, seeded, visit, path, results, resolver, exports,
                 finalizers, calls, history>>

----------------------------------------------------------------------------
(* RegisterProbeResolver::resolve.  A probe is evaluated once, its requires  *)
(* first; while its produce runs no body is open.                            *)
Resolve(k, below) ==
  IF k \in store \cup InProgress \/ k \notin DOMAIN probes
  THEN stack' = below /\ ret' = (IF k \in DOMAIN probes THEN "ok" ELSE "err")
  ELSE /\ stack' = <<Frame("need", k, FALSE, FALSE, probes[k].requires)>> \o below
       /\ ret' = "none"

(* A read from inside a produce may name only what that probe requires. *)
MayRead(k) ==
  \A i \in Innermost : stack[i].at = "produce" => k \in probes[stack[i].who].requires

CallRead ==
  /\ Calls("read")
  /\ \E k \in DOMAIN probes \ store :
       /\ MayRead(k)
       /\ Resolve(k, Waits("read", k))
  /\ UNCHANGED <<file, phase, registry, reach, seeded, visit, path, slot, results, resolver,
                 exports, finalizers, history>>

NeedNext ==
  /\ Ready /\ At("need")
  /\ \E k \in Top.todo : Resolve(k, <<[Top EXCEPT !.todo = @ \ {k}]>> \o Below)
  /\ UNCHANGED <<file, phase, registry, reach, seeded, visit, path, slot, results, resolver,
                 exports, finalizers, calls, history>>

NeedFails ==
  /\ Raised /\ At("need")
  /\ Return("err")
  /\ UNCHANGED <<file, phase, registry, reach, seeded, visit, path, slot, results, resolver,
                 exports, finalizers, calls, history>>

NeedDone ==
  /\ Ready /\ At("need")
  /\ Top.todo = {}
  /\ stack' = <<[Frame("produce", Top.who, FALSE, FALSE, {}) EXCEPT !.saved = slot]>> \o Below
  /\ slot' = NoSlot
  /\ ret' = "none"
  /\ produced' = [produced EXCEPT ![Top.who] = @ + 1]
  /\ UNCHANGED <<file, phase, registry, reach, seeded, visit, path, results, store, exports,
                 finalizers, calls, history>>

ProduceEnds ==
  /\ At("produce") /\ Top.wait = NoCall
  /\ slot' = Top.saved
  /\ store' = IF Raised THEN store ELSE store \cup {Top.who}
  /\ Return(IF Raised THEN "err" ELSE "ok")
  /\ UNCHANGED <<file, phase, registry, reach, seeded, visit, path, results, produced, exports,
                 finalizers, calls, history>>

----------------------------------------------------------------------------
(* register_cookfile: the checks before the first body, the member-source    *)
(* pre-pass, the seed loop, the checks on the closed set, and the            *)
(* finalizers.  The pass stops at the first error.                           *)
Fails == phase' = "failed" /\ stack' = <<>> /\ ret' = "none"

Stops ==
  /\ Fails
  /\ UNCHANGED <<file, registry, reach, seeded, visit, path, slot, results, resolver, exports,
                 finalizers, calls, history>>

(* Reachable is answered over the static edges, before any body runs. *)
Reachable ==
  ReachFrom(StaticEdges,
            file.seeds \cup (IF HasTarget THEN {file.target} ELSE {}))

Load ==
  /\ phase = "load"
  /\ ~Collides /\ ~Cyclic(ProbeEdges) /\ ~Cyclic(StaticEdges)
  /\ reach' = Reachable
  /\ phase' = "prepass"
  /\ UNCHANGED <<file, registry, seeded, driver, slot, results, resolver, exports, finalizers,
                 calls, history>>

LoadFails ==
  /\ phase = "load"
  /\ Collides \/ Cyclic(ProbeEdges) \/ Cyclic(StaticEdges)
  /\ Stops

(* The probes that feed a fan-out somebody may build. *)
Drivers ==
  {DeclOf(n).source : n \in {m \in DOMAIN StaticEdges : ~HasTarget \/ m \in reach}} \ {NoKey}

Prepass ==
  /\ phase = "prepass" /\ Idle
  /\ Drivers \subseteq DOMAIN probes
  /\ \E k \in Drivers \ store : Resolve(k, <<>>)
  /\ UNCHANGED <<file, phase, registry, reach, seeded, visit, path, slot, results, resolver,
                 exports, finalizers, calls, history>>

PrepassDone ==
  /\ phase = "prepass" /\ Idle
  /\ Drivers \subseteq store
  /\ phase' = "bodies"
  /\ ret' = "none"
  /\ UNCHANGED <<file, registry, reach, seeded, visit, path, stack, slot, results, resolver,
                 exports, finalizers, calls, history>>

(* A driver no probe answers, or an error that reached the top. *)
PassFails ==
  /\ stack = <<>>
  /\ phase \in {"prepass", "bodies", "drain"}
  /\ phase = "prepass" /\ Drivers \subseteq DOMAIN probes => ret = "err"
  /\ phase # "prepass" => ret = "err"
  /\ Stops

(* The names sorted before any body ran; a name a body registers is not one. *)
Sorted == {file.recipes[i].name : i \in DOMAIN file.recipes}

Seed ==
  /\ phase = "bodies" /\ Idle
  /\ \E n \in Sorted \ seeded :
       /\ DeclOf(n).requires \cap Sorted \subseteq seeded
       /\ seeded' = seeded \cup {n}
       /\ Enter(n, FALSE, <<>>)
  /\ UNCHANGED <<file, phase, registry, reach, slot, results, resolver, exports, finalizers,
                 calls, runs>>

SeedsDone ==
  /\ phase = "bodies" /\ Idle
  /\ seeded = Sorted
  /\ phase' = "close"
  /\ ret' = "none"
  /\ UNCHANGED <<file, registry, reach, seeded, visit, path, stack, slot, results, resolver,
                 exports, finalizers, calls, history>>

UnitsOf(n) == {entry[n].units[i] : i \in DOMAIN entry[n].units}
AllUnits == UNION {UnitsOf(n) : n \in DOMAIN entry}

(* Every key a unit waits for is declared, the merged requires have no       *)
(* cycle, and no resolved probe reads a file a unit makes.                   *)
KeysDeclared == \A u \in AllUnits : u.needs \subseteq DOMAIN probes

StaticInputs ==
  \A k \in store : \A u \in AllUnits : u.keyed => probes[k].files \cap u.outs = {}

Close ==
  /\ phase = "close"
  /\ KeysDeclared /\ ~Cyclic(MergedEdges) /\ StaticInputs
  /\ phase' = "drain"
  /\ UNCHANGED <<file, registry, reach, seeded, driver, slot, results, resolver, exports,
                 finalizers, calls, history>>

CloseFails ==
  /\ phase = "close"
  /\ ~(KeysDeclared /\ ~Cyclic(MergedEdges) /\ StaticInputs)
  /\ Stops

(* Finalizers run one by one, those queued on the way included.  The frame   *)
(* keeps the sizes of the registries to compare with.                        *)
Sizes == <<Len(recipes), Cardinality(DOMAIN probes)>>

(* Variant: the queue is walked without moving on. *)
NotAdvanced == cursor

Advanced == cursor + 1

CallFinalizer ==
  /\ phase = "drain" /\ Idle
  /\ cursor < queued
  /\ cursor' = Advanced
  /\ stack' = <<Frame("callback", Sizes, FALSE, FALSE, {})>>
  /\ ret' = "none"
  /\ UNCHANGED <<file, phase, registry, reach, seeded, visit, path, slot, results, resolver,
                 exports, queued, calls, history>>

FinalizerEnds ==
  /\ At("callback") /\ Top.wait = NoCall
  /\ Return(IF Raised \/ Top.who # Sizes THEN "err" ELSE "ok")
  /\ UNCHANGED <<file, phase, registry, reach, seeded, visit, path, slot, results, resolver,
                 exports, finalizers, calls, history>>

(* Checked again: a finalizer may have resolved a probe. *)
AcceptedAfterDrain == StaticInputs

Finish ==
  /\ phase = "drain" /\ Idle
  /\ cursor = queued
  /\ AcceptedAfterDrain
  /\ phase' = "done"
  /\ ret' = "none"
  /\ UNCHANGED <<file, registry, reach, seeded, visit, path, stack, slot, results, resolver,
                 exports, finalizers, calls, history>>

FinishFails ==
  /\ phase = "drain" /\ Idle
  /\ cursor = queued
  /\ ~AcceptedAfterDrain
  /\ Stops

Init ==
  /\ file \in Cookfiles
  /\ phase = "load"
  /\ recipes = file.recipes
  /\ probes = file.probes
  /\ reach = {} /\ seeded = {}
  /\ visit = [n \in Name |-> "new"]
  /\ path = <<>> /\ stack = <<>> /\ ret = "none"
  /\ slot = NoSlot
  /\ names = <<>> /\ entry = Empty /\ terminal = Empty
  /\ store = {} /\ exports = {}
  /\ queued = 0 /\ cursor = 0
  /\ calls = 0
  /\ runs = [n \in Name |-> 0]
  /\ produced = [k \in Key |-> 0]
  /\ cycle = [names |-> <<>>, along |-> {}]

LuaCall ==
  \/ CallExec \/ CallAddUnit \/ CallExport \/ CallDepOutput \/ CallProbe \/ CallRecipe
  \/ CallOnComplete \/ CallStepGroup \/ CallRead \/ LuaRaises
  \/ CallRequire \/ CallImport \/ CallDepOrder

LuaStep == GroupForces \/ CallReturns \/ CallRaises \/ GroupEnds

DriverStep ==
  \/ WalkDep \/ WalkFails \/ ForceReached \/ RefuseBody \/ SkipBody \/ CallBody
  \/ BodyReturns \/ BodyFails \/ NeedNext \/ NeedFails \/ NeedDone \/ ProduceEnds

PassStep ==
  \/ Load \/ LoadFails \/ Prepass \/ PrepassDone \/ PassFails \/ Seed \/ SeedsDone
  \/ Close \/ CloseFails \/ CallFinalizer \/ FinalizerEnds \/ Finish \/ FinishFails

Next == LuaCall \/ LuaStep \/ DriverStep \/ PassStep

(* One thread runs the pass, and every call it makes comes back. *)
Spec == Init /\ [][Next]_vars /\ WF_vars(Next)

----------------------------------------------------------------------------
TypeOK ==
  /\ phase \in {"load", "prepass", "bodies", "close", "drain", "done", "failed"}
  /\ visit \in [Name -> {"new", "visiting", "ran", "forced", "skipped", "failed"}]
  /\ path \in Seq(Name) /\ names \in Seq(Name)
  /\ ret \in {"none", "ok", "err"}
  /\ slot \in SlotRecord \cup {NoSlot}
  /\ \A i \in DOMAIN stack : stack[i].saved \in SlotRecord \cup {NoSlot}
  /\ reach \cup seeded \cup exports \subseteq Name
  /\ DOMAIN entry \subseteq Name /\ DOMAIN terminal \subseteq DOMAIN entry
  /\ store \subseteq DOMAIN probes
  /\ cursor <= queued
  /\ calls \in 0..MaxCalls

(* However bodies nest - through a force, a static require of the recipe     *)
(* forced, or a probe read on the way - the open slot is that of the body    *)
(* whose Lua runs, no slot is open while a produce or a finalizer runs, and  *)
(* a recipe is handed only units its own body captured.                      *)
CapturedByOwner ==
  /\ \A i \in Innermost :
       IF stack[i].at = "body" THEN slot # NoSlot /\ slot.recipe = stack[i].who
       ELSE slot = NoSlot
  /\ stack = <<>> /\ phase # "failed" => slot = NoSlot
  /\ \A n \in DOMAIN entry : \A u \in UnitsOf(n) : u.author = n

(* A body is evaluated at most once in a pass, whichever of the seed loop, a *)
(* static require and a force reach it, and in whatever order; a name has    *)
(* one entry even when a skipped recipe is rescued later.                    *)
RunsOnce ==
  /\ \A n \in Name : runs[n] <= 1
  /\ \A i, j \in DOMAIN names : names[i] = names[j] => i = j

(* Register and engine agree about what is built: the engine takes the       *)
(* closure of the request over the merged requires, and when the pass is     *)
(* accepted every recipe in it had its body evaluated - no skip arm left a   *)
(* recipe of the closure without units.  Only what a body registers is       *)
(* excepted, and what is reached through it: reach was answered before, and  *)
(* a chore it does not know is skipped though the target requires it.        *)
Early == [n \in DOMAIN entry \cap Sorted |-> entry[n].requires]

ClosureRan ==
  phase = "done" =>
    \A n \in ReachFrom(Early, file.seeds \cup (IF HasTarget THEN {file.target} ELSE {})) :
      entry[n].ran

(* The cycle a body is told about is one: each step of it is a static        *)
(* require or a call in progress.                                            *)
CyclesAreReal ==
  \A i \in 1..(Len(cycle.names) - 1) :
    LET n == cycle.names[i]  m == cycle.names[i + 1]
    IN m \in DeclOf(n).requires \/ <<n, m>> \in cycle.along

(* The driver alone keeps the merged requires free of cycles, with forces    *)
(* swallowed by pcall and forces pushed down all going around it: the check  *)
(* made on the closed set has work only when a body registered a recipe.     *)
CyclesCaughtEarly ==
  phase = "close" /\ recipes = file.recipes => ~Cyclic(MergedEdges)

(* Every body the build needs is evaluated, and none twice.                  *)
EachBodyOnce == RunsOnce /\ ClosureRan

(* A cycle is reported when there is one, and only then.                     *)
CyclesExact == CyclesAreReal /\ CyclesCaughtEarly

(* The pass ends, whatever bodies force and catch: re-walking the requires   *)
(* of a body that ran marks nothing as being visited, and ends because these *)
(* requires have no cycle.  The load saw to that (local_topological_sort)    *)
(* for the recipes of the file only.  Excepted is therefore a pass in which  *)
(* a body registered the recipe that closes a cycle: a force of a name on it *)
(* may then be pushed down from name to name without end (README).           *)
CycleRegistered == recipes # file.recipes /\ Cyclic(StaticEdges)

PassEnds == <>(phase \in {"done", "failed"} \/ CycleRegistered)
=============================================================================
