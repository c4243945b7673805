# Cook, specified

Cook is a build system. A Cookfile is *lowered* to Lua; the Lua *registers* recipes
and their work units; a *plan* turns the units of the recipes a run needs into one
graph; the *executor* walks that graph over a pool of workers; and a
content-addressed *cache*, local and remote, decides which units have to run. This
directory holds TLA+ specifications of that whole path, the TLC configurations that
check them on small instances, and theorems about them checked by TLAPS. Paths below
are relative to `cli/crates/` unless they start with `standard/` or `document.md`.

## Inventory

| part | state it keeps | operations | what is hard | what makes it correct |
|---|---|---|---|---|
| language, `cook-lang`, `cook-luagen` | the tree of one file, the names in scope | tokenize, parse, lower a file, lower it again with its imports' names | one text read by a classifier, a checker and several expanders that must agree | what is written is registered, every read is an edge, every Lua local is bound, every read is in the key |
| workspaces, `cook-plan/src/entry.rs`, `workspace.rs`, `registers.rs` | the import tree, members in order, the merged namespace | find the entry and root, load imports, seed, order, register, merge, reject duplicates | diamonds, cycles, sigils, names only a module call declares | importees first, everything reached registered, names distinct |
| materializers, `registers.rs`, `cook-register/src/context.rs` | a store of values, one result channel for many callers | `materialize` from three passes and several threads | the channel belongs to whoever reads it, values have two labels | one value or one refusal per caller; nobody waits for ever |
| registration, `cook-register` | the body slot, the units, recipe states, the path being visited | run a body, force another, read or declare a probe, capture a unit, finalize | bodies forcing each other, errors caught part way | a body runs once and owns its units; cycles reported are real |
| recipe closure, affected slice | none | `dependency_edges_multi`, `topological_sort`, `compute_affected` | barriers and fine references are both edges, one is a barrier | a slice is planned like a whole |
| unit graph, `cook-contracts/src/unit_graph` | nodes, leaves per recipe, probes minted so far | `plan`, `toposort_recipes`, `resolve_after`, the demand for probes | barriers, groups, `after`, shared probes, recipes without units | what the author ordered is ordered, a probe is one node |
| gates and lowering of a plan, `run.rs`, `dag_builder.rs` | none | four checks of paths, `build_dag` | literal, directory and globbed outputs across recipes | no stale read, no panic |
| work DAG, `cook-dag` | an atomic counter and flag per node | `add_node`, `initial_ready`, `complete` | threads racing in `complete`, unsigned counters | a node is released once, after its dependencies, and no release is lost |
| executor, `cook-engine/src/executor.rs` | cancelled flags, interactive queue, chore window, `pending`, trackers, test rows | `process_ready`, `cancel_subtree`, `finish_recipe_node`, the main loop, the chore window | overlapping failures while siblings run; a terminal that needs a drained pool; a test that fails softly | nothing starts before its dependencies succeeded; one outcome and one report each; the loop ends |
| worker pool, `cook-execute/src/pool.rs` | queue, condition variable, result channel, a Lua VM per thread | `submit`, `signal_and_join`, `worker_loop`, the execution of each payload | lost wakeups, panicking bodies, state a VM keeps between items | every item is answered once, by its own result; a join ends |
| step cache, `cook-cache/src/check.rs`, `cas_backend.rs`, publication in `executor.rs` | records of earlier runs, an index | check, repair, fetch, serve a verdict, record, upload, backfill | inputs discovered while running, restores that fail half way, kills | a hit yields what a run would |
| artifact store, `backend.rs`, `cache_gc.rs`, `cache_budget.rs` | blobs, sidecars, manifests, a lock per shard | `put`, `get`, `delete`, sweeps by age and size | several processes, crashes between renames, listings without a lock | what was accepted is served whole; a key has one value |
| cache server and client, `serve.rs`, `http1.rs`, `cloud_backend.rs` | slots, handler threads, attempts | `put`, `get`, `put_manifest`, retries, shutdown | cut connections, answers that are lost, attempts that outlive their caller | the store holds whole bodies, slots are exact, everybody ends |
| the rest | | | | see "Not modelled" |

The main thread loads the workspace, registers it member by member, plans, and runs
`execute_dag`. It shares with the workers the pool's queue (a mutex and a condition
variable) and a channel of results; the materializer's callers share such a pool too,
during the load. Builds meet other processes in the artifact store, through files and
one lock per shard, and across the network in the cache server. The hazards are listed
line by line in `PROJECT.json`, each with the properties that would catch it going wrong.

## Modules

| module | models | proofs | checked by |
|---|---|---|---|
| `Sigil` | what a placeholder `$<...>` names | | in `Lowering` |
| `Cookfile` | lexer lines, parser, the tree | | in `Lowering` |
| `Lowering` | usage checks, modes, statements, the second pass | | `MCLowering` |
| `Workspace` | from a directory to a merged workspace | | `MCWorkspace` |
| `MaterializeContract` | what a materializer promises its callers | | refined by `Materialize` |
| `Materialize` | the three passes and the coordinator, over `PoolContract` | | `MCMaterialize` |
| `Capture` | what each `cook.*` call does to the body slot | `RegisterProofs` | in `Register` |
| `Register` | the register phase of one Cookfile | `RegisterProofs` | `MCRegister` |
| `UnitGraph` | closure, affected slice, `plan()` | `BuildPlanProofs` | in `BuildPlan` |
| `BuildPlan` | the gates before a plan, and its lowering to work nodes | `BuildPlanProofs` | `MCBuildPlan` |
| `WorkDag` | `cook-dag`, at the grain of its atomics | `WorkDagProofs` | `MCWorkDag` |
| `BuildContract` | what a build promises about its units | | refined by `Executor` |
| `Executor` | `execute_dag` and the workers as it sees them | `ExecutorProofs` | `MCExecutor` |
| `PoolContract` | what a pool's user relies on | | refined by `WorkerPool`, used by `Executor` and `Materialize` |
| `WorkerPool` | queue, wakeups, shutdown, channel, payloads | `WorkerPoolProofs` | `MCWorkerPool` |
| `StepCache` | check, repair, fetch, verdicts, record, upload and backfill of one unit | `StepCacheProofs` | `MCStepCache` |
| `ArtifactStore` | the store on disk, file operation by file operation | `ArtifactStoreProofs` | `MCArtifactStore` |
| `CacheServer` | builds and a server over a network that fails | `CacheServerProofs` | `MCCacheServer` |

They meet at these seams. What `Lowering` emits as calls are the calls `Register` lets a
body make; what `Register` captures are the units `UnitGraph` reads; `Workspace` takes a
whole pass of `Register` as one step, and `Materialize` the evaluation of its top-level
chunks. `BuildPlan` extends `UnitGraph` with the gates on either side. `UnitGraph` yields
graphs whose edges point back (`PointsBack`), which is what `WorkDag!Accepts` and
`Executor!PlansAssumption` ask. `WorkDag` shows that the counter of a node is the number of
its dependencies outside `completed`, which is how `Executor` writes `Released`.
`PoolContract` sits between `Executor` and `WorkerPool`: the first asks no more of its
threads than the contract gives (`UsesPool`), the second gives it (`ImplementsContract`).
`StepCache` is what lies behind the choice the executor makes of a unit: `SkipOrRepair`,
`FetchHit` and `VerdictKept`/`VerdictFetched` are its `ServeHit` and `ServeTest`, `Miss`,
`VerdictSought` and `Rerun` its `Send...` or, when the unit is pinned, `FailPinned`. Its
store is `LocalBackend`, of which one put is one step: `ArtifactStore` shows that several
processes see it so, and `CacheServer` that a network does.

**Sigil, Cookfile, Lowering.** A line is a record of its leading word, whether it starts at
column 0, and its operands; an identifier is its dotted segments, what stands before a
colon and a bracket group. `Cookfile` consumes a line per step (`Declare`, `Header`,
`SealStep`, `GatherGlobs`, `CookStep`, ...); `Refuse` is every error of the parser
(`TopRefused`, `RecipeRefused`, `ChoreRefused`, ...); `Close` folds the seals. `Lowering`
continues: `LocalPass` is `generate_checked` over the file alone, `UnionPass` the same with
the imports' names (`regenerate_lua_sources`), and then one step per declaration and body
line appends the statements to `code`: the loop a step opens, the Lua local each binds, the
terms it reads, and the unit of each `cook.add_unit`. `Mode` is the shape of a step (one to
one, many to one, block, Lua expression, member fan-out).

**Workspace.** `Enter` finds the entry and its root; `LoadImport` is one frame of the
recursive load; `WorkspaceGraph` and `Seed` decide which bodies each member evaluates,
`Order` registers importees first, `RegisterMember` runs a pass and merges it under a
qualified name, `CheckOutputs` ends.

**Materialize.** The scoped threads of `pre` take members off a counter; `list` and
`register` are the main thread's. A caller goes through `Declare` or `Conflicts`, `Reuse`
or `Submit`, and then `Take`, `TakeBuffered`, `Receive`, `PutAside`: the result channel
has one receiver behind a mutex, and who holds it puts aside what is not its own.

**Register, Capture.** `stack` is the call stack of the mutually recursive driver, its
innermost frame first. `Enter`, `WalkDep`, `CallBody`, `BodyReturns`, `BodyFails` are
`force` and `BodyDriver`; each `cook.*` call is an action (`CallAddUnit`, `CallRequire`,
`CallImport`, `CallDepOrder`, `CallProbe`, `CallStepGroup`, ...) on the slot of the
innermost body, by the operators of `Capture`. Which calls a body makes and what it
catches is Lua's choice. `Prepass`, `Seed`, `Close`, `CallFinalizer`, `Finish` are
`register_cookfile`.

**UnitGraph, BuildPlan.** `Resolve` is the front of `run_with_progress`; `Sort` one pop of
`toposort_recipes`; `CheckEdges` the pre-walk of `plan`; then for each recipe
`EnterRecipe`, `SynthProbe`, `BodyProbe`, `Unit`, `LeaveRecipe`, as the code nests its
loops. Where the code breaks a tie by name the model takes any order. `BuildPlan` puts
`RejectDuplicateOutputs` before it, `CheckGlobbedOutputs`, `CheckLiteralReads` and
`DetectOutputCollisions` around it, and `Lower` after it.

**WorkDag.** One action for a successful `add_node`, and three for `complete`: the `swap`
of the flag, one `fetch_sub` per dependent, the return. Counters have a `Width` and wrap.

**Executor.** `process_ready` recurses; the model keeps the calls still to be made in the
stack `ready` and takes one per step, so that workers interleave with a cascade. `Serve`
(nothing to do, a test's verdict, a probe's value, a cache hit), `QueueInteractive`,
`FailReady` (a payload refused, a lookup that fails, a pinned miss, directories that cannot
be made) and `Dispatch` (`SendProbe`, `SendTest`, `SendUnit`) are its arms. `FailHard` is
the failure of a unit, `FailSoft` that of a test: its dependents are cancelled first, then
it is completed. `OpenWindow` to `CloseWindow` are a chore body. `book` is the recipe
trackers with the verdicts emitted, `rows` the lists of test results.

**WorkerPool.** A step is what happens between taking and releasing the mutex. `sink` is
the output and module accumulators a VM keeps from item to item, which `Prints`,
`LoadsModule` and `CallsShell` fill while a body runs; `ShellNotStarted`, `ShellExits`,
`LuaEnds`, `ProbeEnds`, `Panics` are the ways a payload ends, and what each reports.

**StepCache.** One unit in several checkouts around one store. It produces outputs, or, as
a test does, only observes. `LocallyServed` with `AfterRestore` is `needs_rebuild_cook` with
`try_restore`; `Fetched` is `fetch_by_key`: the first candidate that restores wins (`Won`),
and those tried before it leave what they restored (`Offered`); `VerdictKept`, `VerdictFetched`,
`VerdictSought` and `Rerun` are `check_observing_node`. `Record`, `Put`, `PutRefused`,
`Flush`, `Backfill` are publication, put by put; `Kill` may come anywhere. Contents stand
for their hashes, and an output is the function of what the command read, so that a stale
one shows.

**ArtifactStore.** One step per file operation, or several that the shard's lock makes one
to everybody who takes it. Put, get, delete and sweep are the processes' programs;
`PutFails` and `RemovalFails` the partial failures, `Kill` the crash, after which the
kernel drops the lock. `Victims` is the eviction rule, `Plan` one sweep of the policies.

**CacheServer.** A call makes attempts, an attempt opens a connection, and a connection
lives on when its caller gave up. `ReadHead`, `ReadBody`, `Commit`, `Reply`, `Close` are a
handler; `Accept` and `Full` the slots; `Stop`, `ConnectToSelf`, `Returned` the shutdown;
`Die` and `Restart` the crash. Cuts, stalls, lost answers and a proxy are faults.

## Runs

| run | instance | shows |
|---|---|---|
| `lowering` | 13 000 texts of a few lines, one family per position, with one import | `EffectsKept`, `ReadsAreEdges`, `NothingUnbound`, `KeyedOnReads` |
| `workspace` | 2 700 trees of up to five Cookfiles, 210 requests, bodies that force | `LoadFaithful`, `ImporteesServed`, `MergedRight` |
| `materialize` | five workspaces, 2 scoped threads, the main thread, 2 workers that may not come up, fairness | refines `MaterializeContract`; `InvocationEnds` |
| `register` | Cookfiles of two or three recipes, up to 3 effectful calls, each aimed at one way of nesting, fairness | `CapturedByOwner`, `EachBodyOnce`, `CyclesExact`, `PassEnds` |
| `build_plan` | 3 recipes, 1 or 2 Cookfiles, 3 probe keys, some fifteen bodies each, whole runs and slices, broken graphs, shared paths | `NeverPanics`, `OrderKept`, `ProbesPlaced`, `ReadsAfterWrites` |
| `work_dag` | every graph of up to 4 nodes, 2 threads, width 8 | `ReleasedRight` |
| `executor_plans` | 18 plans of 6 units, 2 workers, chores of every mix of shell and Lua steps; a drain may fail | `TerminalAlone`, `PendingExact`, `StartsAfterDeps`, `UsesPool` |
| `executor_dags` | every DAG of 3 units over five kinds and the chores 3 units make, 2 workers, fairness | `OutcomeTold`, `Terminates`; refines `BuildContract` |
| `worker_pool` | an item of each payload, 2 workers that may not come up, shutdown at any time, fairness | `NoSleepOverWork`, `OwnTraces`, `EveryItemEnds`; refines `PoolContract` |
| `step_cache` | 2 checkouts, a source, 2 files it may mention, 2 declarations, 10 kinds of units, any 2 disturbances out of edits, damage, kills, refused puts and evictions | `HitIsFresh`, `Honest`, `NextRunSkips`, `PublishedIsServed` |
| `artifact_store` | 2 keys of one shard, 2 putters, a getter, a process that deletes, another that sweeps under 4 policies, kills and failures at any step, one damage or tick | `AcceptedIsServed`, `RoutesSurvive`, `SweepReachesTarget`, `OneValuePerKey` |
| `cache_server` | 2 callers, one slot, one retry, one fault, puts that agree, conflict or pass a cap, fairness | `StoreIsTrue`, `SlotsExact`, `EveryoneEnds` |

Why these bounds. A lowering error needs one line that reads in one mode and a name from
another line or file, and each position has every line of its family. An import order goes
wrong with a diamond or a cycle below the root, which four directories make. A caller of the
materializer can lose its result only to a second caller, so two threads. A body nests in a
body through a third, so three recipes and three calls. In the planner, pass-through of
leaves needs a chain of three recipes, a shared probe two demanders with different
prerequisites, a group barrier three members. A wrong release needs a unit with two
dependencies whose outcomes differ, a failure above and below it needs six units, two bodies
at once need two workers. A lost wakeup needs two sleepers and more items than sleepers. A
wrong hit needs a builder, a consumer whose tree differs (the initial trees are arbitrary)
and a chain of two found files; two disturbances make an edit and its revert, a kill and a
damaged output, or a refused put and an eviction. Two writers, a reader, a delete and a sweep
are all the roles the store has, and the two that remove must be two processes to meet. One
slot is what makes the server full.

`CHECK_DEADLOCK FALSE` wherever the system ends and stops; the step cache and the store can
always go on, and there deadlock is checked. `SYMMETRY` only where no liveness is checked.

What the properties say, where a name is not enough:

* `ReleasedRight`: `ReleasedOnce`, `ReleasedAfterDeps`, `NoLostRelease`, `NeverWraps`.
* `StartsAfterDeps`: a body starts, or a unit is served, only after all dependencies
  succeeded and never once cancelled. `TerminalAlone`: whoever owns the terminal is alone.
  `PendingExact`: `recv` never waits for a result nobody sends. `OutcomeTold`: one outcome,
  one row, one verdict, at the right time.
* `OrderKept`: a recipe waits for all of what it requires, through recipes without units and
  in a slice; what depends on a part of another recipe waits for all of its units
  (`WaitsForWhole`); the written order, `after` and fine references hold; and no more than
  that inside a group. `ReadsAfterWrites`: a read of another recipe's literal output comes after
  the write, in every plan that passed the gates.
* `HitIsFresh`: a hit leaves what a run would have left, and a test that is not run would
  have passed. `Honest`: records and stored bytes tell what happened. `NextRunSkips`: a run
  or a fetch is followed by a skip. `PublishedIsServed`: what is published completely is
  found by whoever has the same sources.
* `CapturedByOwner`: units go to the body whose Lua runs. `CyclesExact`: a cycle is reported
  when there is one, and only then. `PassEnds`: the pass ends, unless a recipe that a body
  registered closes a cycle of requires (see below). `MergedRight`: names tell declarations
  apart, deps written through an alias name what it imports, and what a request reaches is
  registered: through requires as written, and from there through any, written or made by a
  body, inside one member (see below).
* `AcceptedIsServed`: no reader sees a writer between its two renames, nor a late sweep.
  `StoreIsTrue`: what a caller is told was so at some time while it asked, and only whole
  bodies are stored. `SlotsExact`: the server counts the connections it has threads for.

Every property has a mutant in `PROJECT.json`: a variant of one definition, kept beside
it in the module and marked "Variant", with which TLC finds the property violated.

### Fairness

`Executor`: weak fairness of the main thread, which never sleeps while it can go on, and of
each worker: a body that started ends, since no time limit is set on one (CS-0135) and a
body that never ends is a build that never ends. `WorkerPool`: of each worker and of the end
of a join; nothing of what the main thread submits or when it shuts down, and a spurious
wakeup may always or never come. `Register`: of the pass, one thread, whose bodies make
finitely many calls. `Materialize`: of each thread and worker; the mutex of the receiving
end need not be fair. `CacheServer`: of each caller's own timeout and of the server's threads
(`io_timeout` ends a stalled read); nobody has to stop or restart the server.

## Where the code and its documents disagree

Met while modelling. The modules follow the code; where a property would otherwise state
what a document says, it has an exception that names the case.

*Running and caching.*

* When the drain of a chore's process group fails, the last step is failed after its
  dependents were already started (`executor.rs:2431`; `standard/.../13-two-phase.mdx:16`),
  and a dependent test gets two rows. `Executor!CloseWindow`, with `DrainMayFail`.
* A comment (`executor.rs:1533`) says `check_observing_node` never returns `PinnedColdMiss`;
  it does (line 971), for an observing unit that is pinned.
* `--affected` cuts the closure and not the fine references, so a slice may be refused as a
  dangling edge (`pipeline.rs:723`; `document.md:839`); `cook test --affected` drops the flag
  (`pipeline.rs:1562`; `document.md:829`).
* The key sorts content hashes and drops the paths (`check.rs:1197`): exchange two inputs and
  the old output is served. The contents of different files differ in `step_cache`.
* The manifests of discovered inputs and modules are under write-once keys
  (`backend.rs:565`; `executor.rs:3743`): the second set conflicts, and the upload ends there.
* The log, by which the backfill knows an upload is complete, is put before the manifest
  (`executor.rs:3893`), and stays when the manifest is refused.
* A failed `--rerun` leaves the earlier passing record in place, so a flaky test that just
  failed is served as passed. The units of `StepCache` are deterministic, which excludes it.
* With `-j 0`, or when every worker fails in its set-up, the main thread panics on its
  channel (`WorkerPool!Disconnected`). A chore that fails half way gets no verdict.
* "Successful steps tick" (`executor.rs:2474`), and so does a step the window passes over
  because a failed test had cancelled it, which was ticked then too: the tick is of a count
  of steps (`executor.rs:2482`). In a step group of a Lua chore, with one step behind a test
  and another behind a step of its own, the chore can get its verdict while a step is still
  to run. `StepsInOrder` of `ExecutorProofs` says which plans are free of it; the runs' are.

*Planning.*

* The read-after-write gate looks at recipes: a reader whose recipe reaches the writer only
  through another unit's fine reference is accepted and unordered (`run.rs`, check 1b), as
  are reads of an own recipe's output inside a step group. `ReadsAfterWrites` says so.
* `detect_output_collisions` is undirected and lets diamonds pass; duplicate and globbed
  outputs compare paths as written, whichever member they belong to.
* A probe synthesised for a recipe is not ordered after an upstream declared in that
  recipe's body (`ProbesWired`), where `standard/.../22-probe-units.mdx:381` calls each
  `requires` an ordering edge. Nor is a key that nobody declares refused there: the edge is
  left out, as the key has no node.
* `DepKind::Sequential` "depends on all prior units in recipe" (`unit/mod.rs:239`). A
  `cook.exec` or `cook.interactive` inside an open `cook.step_group` captures such a unit
  (`capture.rs:539`, `567`): it does not wait for the earlier members of that group, and the
  later ones wait for it. `AsWritten` (in `OrderKept`) asks of a unit to wait for the earlier
  ones whose group is over.

*Registration.*

* A materializer's value has two labels, depending on the pass that asks
  (`registers.rs:911`, `343`).
* A raw `cook.add_unit` of a test whose `command` holds `$<key>` is not scanned for probes
  (`unit_api.rs:1031`), though `22-probe-units.mdx:427` requires it of direct calls.
* The comment at `engine.rs:797` on a failed visit does not hold once `pcall` swallows the
  failing force; the check at `engine.rs:2381` is called defensive, and is reached by
  cyclic probes declared in bodies. A recipe registered from a body is never seeded, comes
  after `detect_collisions`, and is why check 12a is not redundant. What is reachable was
  answered before it came, so a chore or a fan-out that a body registers is skipped though
  the target requires it (`engine.rs:447`, and the comment above it): `ClosureRan` (in
  `EachBodyOnce`) follows requires through the names of the file only.
* "Terminates despite not marking `name` `Visiting` first" (`engine.rs:948`) rests on
  `local_topological_sort`, which saw the recipes of the file only. With `a: c` and `b: c`,
  let the body of `a` register `c` with `requires = {a}` and the body of `b` require `c`:
  `c` and `a` have run unforced, and the forced walk of their requires goes from `c` to `a`
  to `c` without end, neither being marked. `PassEnds` excepts passes in which a body
  registered a recipe and the requires, as registered, have a cycle (`CycleRegistered`); the
  instances have late recipes with and without one.
* A chore reachable "whether the edge was declared statically or established at register time
  by `cook.require_recipe`" is invoked, and "the graph is the workspace's, not the
  Cookfile's" (`07-chores.mdx:258`, `262`). Let the body of the target force `x`, where
  `x: sub.k` names a chore of an imported Cookfile. `merge_into` carries the requires the
  bodies made (`engine.rs:1424`, `registers.rs:1106`), so `sub.k` is in the closure; but the
  importee registered first, by a graph made before any body ran (`registers.rs:1006`), and
  skipped it: it is built without units. `ClosureReached` (in `MergedRight`) excepts what is
  reached only through a require across an import behind one that a body made.
* A late refusal in `add_unit` has consumed the pending member inputs (`unit_api.rs:469`); a
  step group stays open when `dep_order` raises inside it and the body catches; outputs of
  sequential units before a step group are drained as the group's (`lib.rs:394`).

*Language.*

* Outputs: a Lua-expression output of a bare gather lowers to its literal text
  (`cook_step.rs:585`; `08-step-kinds.mdx:328`), without a source it loops over nothing, and
  a non-string raises where rule 3 coerces; outputs of a block step are not substituted
  (`10-cross-recipe-references.mdx:49`); `$<out>` in an output pattern is a nil
  concatenation at registration; one pattern with the accessors of two recipes lowers both
  to the first driver's path, where 10.4 says one driver per step; patterns read probe
  values at registration, which 10.2.4 forbids.
* Edges: a recipe named `out_1` is read without an edge (`ReadsAreEdges` excepts it).
* Chores are not checked for accessors: `$<lib.stem>` lowers, where 10.4 rejects it.
* The local pass sees local names only, so a pattern driven by an imported recipe is refused
  when its body names `$<in>` (`parse.rs:52`, `workspace.rs:195`).
* `$<obs.list[0]>`, a probe without a colon and with an index, is refused as a bad member
  index; an exclude-only gather is accepted and empty.

*Stores.* Not modelled, and noted for whoever extends it: variants of one output by
environment make the orphan sweep report a change Cook made itself; an output that moved to
an unreached recipe is swept; a dropped output is forgotten when a run fails after
recording; and a starting process sweeps another's temporary index file. A sweep by size may
take a route that was put while it listed, between its two renames (`RoutesSurvive` asks
only for what stood there before). A sweep that lists a key while another process removes it
may meet the manifest with its blob still there, and the blob when it is gone: it then counts
neither and ends above its target. `SweepReachesTarget` excepts sweeps beside which a blob
was written or taken (`calm`). A late duplicate of a manifest put may land after a newer
one.

## Proofs

The proofs hold for every value of the constants that satisfies the named assumptions: any
graph, number of threads, plan, workspace. TLAPS checks them to the last leaf.

*WorkDag.* `IInv == Shape /\ Counted /\ ReleasedWhenDone`. What the run checks is not
inductive, as a counter alone says nothing about calls half way: `Counted` says the counter
of `m` is the number of dependencies of `m` that are not completed or that some call has
still to subtract, and `OneCaller` that two calls never complete the same node. From it
follow the type, the three parts about releases and `NeverWraps`, together
`ReleasedRightCorrect`. `SizeAssumption` (the width exceeds the number of nodes) is needed
for the counters. The argument counts, and rests on the facts of `FiniteSetTheorems`.

*Register.* For every set of names, keys, paths and members, any number of calls, and every
Cookfile that is a `CookfileRecord` (`CookfilesAssumption`). Assumed besides is that the
values standing for no name, no key, no member and no slot are not among the others. Every
step is one of a few moves of the stack (`StepMoves`): it leaves the stack alone, changes
its top frame, pushes one or pops one. What follows is proved over those moves.

* `TypeInv` is the type with what makes it inductive: the open slot, and every slot put aside
  in a frame, is that of the innermost body below which runs Lua (`Slots`), and holds only
  units of its own recipe. `CapturedByOwner` is what it says of the top, and a pass that
  fails may leave anything.
* `VisitInv`: a name marked as being visited is visited by exactly one frame, a name whose
  body has run was counted once, and entries and names agree. This is `RunsOnce`.
* `WorkInv`: each frame does what the one below it asked for. A body runs only when none of
  its static requires is left to walk; when it runs under a force all of them were forced,
  and a force returns only then.
* `SlotInv` and `EntryInv`: beyond its static requires an entry requires only names that were
  forced, and the force went on to all that a forced name requires. That is why no skip arm
  loses a recipe: a name skipped as unreachable is rescued by the force that makes it
  reachable.
* `PassInv`: `reach` is what the request reaches by static requires, and of a seeded name in
  it the body has run or its visit is the lowest frame. When no seed is left everything in
  `reach` has run; with `EntryInv` so has all that the merged requires reach, which is
  `ClosureRan`.
* `AcyclicInv`: the requires registered for the names of the file have no cycle, which gives
  `CyclesCaughtEarly`. What an entry requires beyond its static requires was forced, the
  forced names are closed, and the one being registered is not yet one of them
  (`AcyclicMore`): a cycle would lie within the forced names, which had none, or be made of
  static requires, which were sorted before any body ran.
* `RouteInv`: `path` is the route of the stack, that is the names of the frames on path from
  the lowest to the top, and from one to the next leads a static require or a call in
  progress. So the cycle that `ensure_invoked` cuts out of `path` is one (`CycleInv`).

The reachability lemmas (`ReachClosed`, `ReachLeast`) are those of *BuildPlan* below, over
finite sets of names. That the pass ends (`PassEnds`) is liveness and stays with the run.

*Executor.* `StartsAfterDeps` needs to know of everything that waits to start (the stack of
`process_ready`, the interactive queue, the rest of a chore window) that its dependencies
are completed (`QueuedOK`, `WindowOK`, `HandedOK`), that completed means succeeded or failed
(`CompletedOK`), and that below a failed or cancelled unit everything is cancelled
(`FailedOK`, `CancelledOK`). A unit that is not cancelled then has no failed dependency, so
its completed dependencies succeeded. The order of `cancel_subtree` and `complete` in the
failure of a test (COOK-341) is where the proof uses the first before the second. Nothing is
assumed about `Plans` but that edges point back. `PendingExact` is inductive beside that: it
counts what is in the pool's queue, at work and in the channel.

Everything else stands on `Once`: a unit is in at most one place among the stack, the
interactive queue, the window, the terminal and the pool, and in none once it completed. A
release is what keeps it: `Dag::complete` hands out a unit at its last dependency only, and
a unit completes once. From it follow

* `UsesPool`: the executor submits an item once and takes one result at a time, in order;
* `TerminalAlone`, with `Quiet`: what a step of a chore releases is another step of the same
  chore, which the window holds back, until the whole chore is completed. This needs
  `ChoresAssumption`: what waits for one step of a chore, and is not of it, waits for all of
  them. Of what a plan hands over, `BuildPlanProofs` proves the part across recipes
  (`WaitsForWhole`, in `OrderKept`); within a recipe it holds as the parser bans cook and
  test steps from a chore. A chore registered from Lua may still put a plain unit with an
  `after` on one member of a step group; such a plan is outside the assumption, and the
  theorem does not speak of it;
* `ImplementsContract`, that the executor refines `BuildContract`, under `~DrainMayFail`:
  `Fates` gives every unit one fate of the contract, `Apart` says its place in the pool is
  one, `Failing` what is left to do of a window that failed, and `CascadeIsDownstream` that
  `cancel_subtree` reaches exactly what the contract calls downstream. The hypothesis is not
  a convenience: when a drain fails, the last step is failed after its dependents were
  started (see above), and the contract does not hold;
* `OutcomeTold`, under the same hypothesis. `Told` is inductive beside all of the above.
  `Unforgotten`: a unit without an end waits, is in the window, runs, or has a dependency to
  come; when the run stops nothing waits, so the one of least id would need a dependency of
  smaller id without an end. `RowsOK`: the row of a test is what became of it, at any time.
  `Tally`: the books of a recipe count the units that ended, less the steps whose window is
  open, and emit when the count reaches the total, once. That a verdict comes only when
  nothing of the recipe is left is proved of every recipe without chore steps
  (`RunAccounted`), and of chores when the plans have their `StepsInOrder`
  (`OutcomeToldCorrect`): a chore's window may hold a step that a failed test cancelled
  before, which is ticked twice (see above), and then `WindowLast` says that nothing of the
  chore is left outside the window.

*WorkerPool.* `NoSleepOverWork` is nearly inductive: it needs the types, and what a running
worker holds. `OwnTraces` needs `SinkOK`: the accumulators of a worker that is not running
are empty, and those of one that runs hold its own item's traces, which each of the three
ways a body leaves traces keeps, and each of the five ways it ends clears. The pool refines
`PoolContract` (`ImplementsContract`): the contract's queue is the items of the code's, and
taking the head of one is taking the head of the other because the sentinels of a shutdown
stand behind the work (`Parted`) and no worker leaves while an item waits (`Closing`).
`JoinFlushes`, a part of what `EveryItemEnds` asks, needs no fairness: every item submitted is in the
queue, at work, answered or received (`Accounted`), and when the join is over every thread
has ended (`Over`).

*UnitGraph.* `PlanInv == ws \in Workspaces /\ GraphOK /\ RefsOK /\ WalkOK`. That edges point
back is inductive once every table that later steps read (`minted`, `leaves`, `probeNode`,
`unitNode`, `barrier`) refers to nodes that exist (`RefsOK`). `ProducersPlaced` needs
`WalkOK`: of a recipe being walked, exactly the units below the first of `todo` have a node,
and its `after` entries were resolved. `ProbesDeclareNothing`, the reason the comment in the
code gives, is assumed of what registration hands over.

*BuildPlan.* `PlansByTheLaw`: a build with its gates plans as `UnitGraph` does or is refused,
a refinement proved step by step; so `NeverPanicsCorrect`, and what follows, holds of builds.

`OrderKept` speaks of what a node reaches, so reachability comes first. `ReadsAfterWrites` and
the closure use it too. `ReachFrom` grows a set in layers; that the layers exist and are
determined, that the last one is closed (`ReachClosed`) and the least such set
(`ReachLeast`) are each an induction on numbers, made with the least counterexample
(`LeastNat`). In a graph whose edges point back a node reaches only what is before it, and
appending a node changes nothing upstream of the others (`UpFacts`, `UpAppend`), which is
what makes facts about `Up` inductive. `PlanOrder` adds three invariants to `PlanInv`:

* `SliceInv`: the slice lies in the closure and holds whatever of it depends on a member, it
  is sorted so that an edge leads to an earlier recipe, and the recipes walked are those
  before `at`;
* `ProbeInv`: a node of a key is the one `minted` names for its Cookfile (`MintedOK`), every
  demand of a recipe walked is served (`DemandsServed`), and so is what the recipe being
  walked has demanded and no longer has in `keys` (`ProbeWalk`). `ProbesPlaced` needs both directions:
  at most one node, and one whenever there is a demand;
* `OrderInv`: of a recipe walked, its leaves reach all of its units and all that its
  requirements hold (`WalkedOK`), through recipes that have no unit; of the recipe being walked,
  each unit is below the barrier or in a group that is still open, and in an open group
  nothing at the front waits for another member (`WalkingOK`); and each pair of units stands as `AsWritten` and `GroupsRunTogether`
  say (`PairOK`).

`ReadsAfterWritesCorrect` needs of the gate only that it was passed (`GateOK`); that the gate's
reachability over recipes is one over units follows from `WaitsForRequired` along each edge,
and the fine reference that makes the exception is found as the first edge of the path
(`FirstEdge`).

*CacheServer.* For any number of callers, plays and slots. `SlotsExact` is not inductive:
accepting a connection adds one handler only if it was none before, which needs that it
waits in the backlog once (`BacklogOK`), and that needs that no attempt opens a connection
already opened (`Fresh`). `OnlyWholeBodies` needs what a handler may hold at each point
(`WholeOK`): one that commits has read its body to the end, and a body past the caller's own
cap is never sent to its end. Assumed are at least one slot, that plays speak of known keys
and bodies, and that the waker is no caller's connection. The counting rests on
`FiniteSetTheorems`.

`StoreIsTrue` speaks of time: an answer was true while the caller asked. `Truth` says so of
every answer under way already, in the handler or on the wire (`Heard`), and that what the
store holds now is among what each caller that asks has seen (`SeenNow`).

*ArtifactStore.* A read, a put, a sweep and a crash meet between two file operations, so the
invariant says of each process what it holds there (`Own`): the lock of the key it works on
(`LockHeld`); that nothing accepted stands where a put has decided or a removal has begun
(`Unserved`); that the blob placed is the one the sidecar will name (`Placed`); that what a
reader is owed stands and is what it has read so far (`OwedKept`); that a route to be spared
was not listed as something else and is no victim (`Spared`). With `StandingTrue`, that what
stands is whole, this gives `AcceptedIsServed`, `RoutesSurvive` and `OneValuePerKey`. A tick,
a kill and damage change only what it lets them change.

`SweepReachesTarget` compares two sums, and has an invariant of its own (`CalmInv`), of the
sweeps beside which nobody wrote or took a blob. While one lists, its candidates are of
different keys, and account for every entry it has passed (`Lists`): a blob with the manifest
beside it, a manifest alone. Once it has planned, some candidates of its listing, whose
bytes fit the goal, cover all that stands under the keys not to be removed (`Remaining`);
and between blob and manifest the key at hand has lost its blob (`Emptied`), so that when the
manifest goes nothing of it is left. What others may still do, damage a blob or drop a
manifest, only shrinks what stands (`SweptOn`). Three facts carry it. A fold over a finite set
is a sum, whichever member it takes first (`SumsTake`), by induction over the size as a least
counterexample (`LeastNat`). What candidates cover weighs no more than they do (`Covered`).
And the plan fits its goal (`PlanFits`): of what may be taken and is not, the first in the
order of the pass was passed over because what then remained fitted the target; if there is
none, only exempt candidates remain. Assumed are finitely many keys, sizes and policies that
are numbers, a positive divisor of the low water mark, and that no two keys have the same
place in their order.

*StepCache.* Two invariants. `Shape`: records are well formed, valid after the step that
made them, and what ran left what it should; from it `NextRunSkips` and `PublishedIsServed`
hold of any sources. `Truth`: the outputs of every record, and every output, log and
manifest stored, are those of runs which ended well on sources with the key they are under
(`FromRuns`). Nothing is assumed of contents for that, so what follows is told of keys: a
record and a stored output come from runs of their own key (`RecordsUpToKey`,
`HonestStore`), and a hit leaves what runs of the key of the matched files left
(`ServedUpToKey`). A key does not always tell what was read, as it sorts content hashes and
drops the paths (`check.rs:1197`): with two inputs exchanged the old output is served, as
listed above. `HonestCorrect` and `HitIsFreshCorrect` therefore give `Honest` and
`HitIsFresh` in the states where no record, or no hit, has a key that other sources have as
well (`RecordsTold`, `HitsTold`). The files a run finds are fixed by what those files hold
(`SameReads`), which is why such a hit is fresh. `ApartTold` shows that both conditions hold
throughout an instance in which no two files may hold the same, such as the one of the run
`step_cache`, for there a key tells its files apart (`KeyTellsFiles`). Also assumed: no unit
that observes writes a depfile, no product is junk, and the outputs' names are not those of
the log, the manifests and the depfile.

Only model-checked: everything under fairness (`PassEnds`, `EveryItemEnds` and the other
temporal properties); `Workspace` (`LoadFaithful`,
`ImporteesServed`, `MergedRight`), whose proofs would need an order on the import tree and
have not been tried; the refinement of `MaterializeContract`, not tried either; and
`Cookfile` and `Lowering`, which use recursive operators, and those the prover does not
take.

## Plan

Done: the path from a text to the last result, with its caches. What would add most next:

1. Proofs: the refinement of `MaterializeContract`; `LoadFaithful` and `MergedRight` of
   `Workspace`.
2. The recipe index: its rewrite under two processes, and the reconciliation of orphans.
3. Pattern and directory outputs, and the stat memo, in `StepCache`.
4. Probe values kept between runs.

## Not modelled

*Of the language:* tokenizing inside a line, quoting, escapes, and the layout of the emitted
text. Since CS-0134 a parsed recipe holds only gathers, member sources, cook and test steps
and inline Lua; the arms of the generator for shell, Lua lines and Lua blocks in recipes
(`emit_body_unit_with_names`, `render_chunk_pieces`, `DeclarationOnly`) cannot be reached
from the parser and are left out.

*Of registration:* the Lua library (`fs`, `path`, JSON), module resolution and lock files
have no state the pass depends on.

*Of the step cache:* pattern and directory outputs with their sweep, the `record`
disposition, symlinks and modes, the identity shortcut and the stat memo, the environment
part of the key (it also names the record), units with nothing to key on, depfiles that
cannot be read, commands that succeed without writing an output, commands that are not
deterministic, an index that is corrupt or cannot be written. The caps on remembered sets
(64 and 8) are never reached by the instances. The binary format of the index is a
conversion covered by its own tests.

*Of the stores:* the configuration of the automatic sweep and of the cloud backend, the
sentinel access time 0, `batch_query`, `get_manifest` and `health`, which only read;
`CacheBackend::delete` has no caller on the client side.

*Whole parts:* processes, signals, namespaces, terminals and `git diff` belong to the
operating system and enter as outcomes. The watcher restarts a command. The test reporter,
progress, logs, `why`, `audit`, `verify`, completion and the editor's grammar render or
explain what the modelled parts keep. `PROJECT.json` gives the reason for each component.
