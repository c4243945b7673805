----------------------------- MODULE BuildPlan -----------------------------
(***************************************************************************)
(* The gates between a registered workspace and the run, and the lowering  *)
(* of the plan: reject_duplicate_outputs at the end of registration        *)
(* (cook-plan registers.rs), the structural checks of run_inner            *)
(* (cook-engine run.rs, dag_builder.rs), and build_dag.  UnitGraph.tla     *)
(* draws the plan between them.  A refusal ends the invocation before any  *)
(* unit has started.                                                       *)
(***************************************************************************)
EXTENDS UnitGraph

CONSTANT
  Covers       \* Covers[t]: the literal paths the terminal output t may match

ASSUME CoversAssumption ==
  /\ DOMAIN Covers \subseteq Path
  /\ \A t \in DOMAIN Covers : Covers[t] \subseteq Path \ DOMAIN Covers

VARIABLES
  gate,        \* the check that comes next, "plan", "run", or the refusal
  dag          \* the Dag<WorkNode> handed to execute_dag

gates == <<gate, dag>>
all == <<vars, gates>>

Terminal == DOMAIN Covers
Literal == Path \ Terminal

(* The units of recipes R that declare p as an output, or as a literal       *)
(* input; a path is taken as it is written.                                  *)
Writers(R, p) == UNION {{r} \X {i \in DOMAIN Units(r) : p \in Units(r)[i].outs} : r \in R}
Readers(R, p) == UNION {{r} \X {i \in DOMAIN Units(r) : p \in Units(r)[i].ins} : r \in R}

(* The same path of the same member: working_dir.join. *)
SameDir(r, s) == ws.recipe[r].file = ws.recipe[s].file

----------------------------------------------------------------------------
(* reject_duplicate_outputs: whatever member a unit belongs to. *)
Duplicates == \E p \in Literal : Cardinality(Writers(ws.names, p)) > 1

RejectDuplicateOutputs ==
  /\ gate = "duplicates"
  /\ gate' = IF Duplicates THEN "duplicate" ELSE "globs"
  /\ UNCHANGED <<vars, dag>>

(* check_globbed_output_cross_recipe_edges: over the whole workspace, and    *)
(* whatever member a unit belongs to.                                        *)
GlobbedEdge ==
  \E t \in Terminal : \E p \in Covers[t] :
    \E w \in Writers(ws.names, t), x \in Readers(ws.names, p) : w[1] # x[1]

CheckGlobbedOutputs ==
  /\ gate = "globs" /\ stage = "sort"
  /\ gate' = IF GlobbedEdge THEN "globbed" ELSE "sort"
  /\ UNCHANGED <<vars, dag>>

(* check_literal_read_after_write: over the closure.  The recipe of the      *)
(* reader must require, by any of its units, the recipe of the writer.       *)
Orders(r) == (DeclaredCoarseDeps(r) \cup FineOf(r)) \cap reachable

(* Variant: as in the collision check, either direction will do. *)
RequiresEitherWay(r, s) ==
  s \in ReachFrom([x \in reachable |->
                     Orders(x) \cup {y \in reachable : x \in Orders(y)}], {r})

RequiresTransitively(r, s) == s \in ReachFrom([x \in reachable |-> Orders(x)], {r})

ReadsUnordered ==
  \E p \in Literal : \E w \in Writers(reachable, p), x \in Readers(reachable, p) :
    /\ w[1] # x[1] /\ SameDir(w[1], x[1])
    /\ ~RequiresTransitively(x[1], w[1])

CheckLiteralReads ==
  /\ gate = "sort" /\ stage = "check"
  /\ gate' = IF ReadsUnordered THEN "readAfterWrite" ELSE "collisions"
  /\ UNCHANGED <<vars, dag>>

(* detect_output_collisions: two recipes of the closure that write one path  *)
(* are let through when declared deps, taken as undirected, connect them.    *)
Connected(r, s) ==
  s \in ReachFrom([x \in reachable |->
                     DeclaredCoarseDeps(x)
                       \cup {y \in reachable : x \in DeclaredCoarseDeps(y)}], {r})

Collides ==
  \E p \in Path : \E v, w \in Writers(reachable, p) :
    v[1] # w[1] /\ SameDir(v[1], w[1]) /\ ~Connected(v[1], w[1])

DetectOutputCollisions ==
  /\ gate = "collisions"
  /\ gate' = IF Collides THEN "collision" ELSE "plan"
  /\ UNCHANGED <<vars, dag>>

----------------------------------------------------------------------------
(* build_dag and lower_unit: a node of the dag for each node of the plan. *)

(* is_presatisfied: an empty command that takes no part in caching.  A unit  *)
(* takes part as soon as it has something to key on.                         *)
Presatisfied(u) == u.empty /\ u.outs = {} /\ u.ins = {}

(* The deduplicated ids of a node's producers; a synthesised probe is        *)
(* lowered from its declaration.                                             *)
Lowered(n) ==
  [recipe |-> n.recipe, deps |-> n.deps,
   payload |-> IF n.key # NoKey THEN "probe"
               ELSE IF Presatisfied(Units(n.recipe)[n.unit]) THEN "none" ELSE "body"]

Lower ==
  /\ gate = "plan" /\ stage = "done"
  /\ dag' = [n \in DOMAIN nodes |-> Lowered(nodes[n])]
  /\ gate' = "run"
  /\ UNCHANGED vars

----------------------------------------------------------------------------
BuildInit == Init /\ gate = "duplicates" /\ dag = <<>>

(* What UnitGraph does, at its place between the gates. *)
Planning ==
  /\ \/ gate = "globs" /\ Resolve
     \/ gate = "sort" /\ \E r \in Name : Sort(r)
     \/ gate = "plan" /\ Wire
  /\ UNCHANGED gates

BuildNext ==
  \/ RejectDuplicateOutputs
  \/ CheckGlobbedOutputs
  \/ CheckLiteralReads
  \/ DetectOutputCollisions
  \/ Planning
  \/ Lower

BuildSpec == BuildInit /\ [][BuildNext]_all

----------------------------------------------------------------------------
(* Properties. *)

(* A plan that was accepted orders every read of another recipe's literal    *)
(* output after the write, unit by unit.  The gate looks at recipes: where   *)
(* the only path to the writer is the fine reference of another unit, one    *)
(* the reader does not wait for, it accepts a plan that leaves the two       *)
(* unordered.                                                                *)
ReadsAfterWrites ==
  gate = "run" =>
    \A p \in Literal : \A w \in Writers(reachable, p), x \in Readers(reachable, p) :
      w[1] # x[1] /\ SameDir(w[1], x[1]) =>
        LET n == NodeOf(x[1], x[2])
            m == NodeOf(w[1], w[2])
        IN \/ m \in Up(n)
           \/ \E k \in NonProbes(x[1]) :
                /\ NodeOf(x[1], k) \notin Up(n)
                /\ w[1] \in ClosureOf(Units(x[1])[k].fine)

(* build_dag unwraps, and plan() expects: neither meets what it excludes. *)
NeverPanics == PointsBack /\ ProducersPlaced

(* The order of an accepted plan is the written one, no less, and inside a   *)
(* step group no more.                                                       *)
OrderKept == WaitsForRequired /\ WaitsForWhole /\ AsWritten /\ GroupsRunTogether

(* Each probe runs once, and before whatever reads its value. *)
ProbesPlaced == ProbesOnce /\ ProbesWired
============================================================================
