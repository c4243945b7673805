----------------------------- MODULE UnitGraph -----------------------------
(***************************************************************************)
(* From a registered workspace to the unit graph the executor runs: the    *)
(* closure of the targets, the slice --affected keeps of it, the order the *)
(* recipes are walked in, and the wiring law of                            *)
(* cook-contracts/src/unit_graph, one action for each node it adds or      *)
(* reuses.  Recipes are walked in an order that respects their edges;      *)
(* where the code breaks a tie by name the model takes any order.          *)
(***************************************************************************)
EXTENDS Integers, Sequences, FiniteSets

CONSTANTS
  Name,        \* recipe names
  File,        \* Cookfiles
  Key,         \* probe keys
  Path,        \* declared inputs and outputs
  NoKey,       \* the key of a unit that is not a probe
  Workspaces   \* what registration may hand over, with the flags of the run

(* A captured unit.  group is 0 for DepKind::Sequential and otherwise the    *)
(* number of its step group; fine holds the recipes its dep_edges name, ins  *)
(* its literal inputs; empty is a shell command without text.                *)
UnitRecord ==
  [probe : Key \cup {NoKey}, group : Nat, needs : SUBSET Key, ins : SUBSET Path,
   outs : SUBSET Path, after : SUBSET Path, fine : SUBSET Name, empty : BOOLEAN]

RecipeRecord == [file : File, requires : SUBSET Name, units : Seq(UnitRecord)]

(* declared and upstream are the probe registry of each Cookfile: its keys   *)
(* and the inputs.requires of each.  changed holds the recipes with a        *)
(* declared input the diff touches.                                          *)
WorkspaceRecord ==
  [names : SUBSET Name, recipe : [Name -> RecipeRecord],
   declared : [File -> SUBSET Key], upstream : [File -> [Key -> SUBSET Key]],
   targets : SUBSET Name, affected : BOOLEAN, changed : SUBSET Name,
   command : {"run", "test"}]

ASSUME NoKeyAssumption == NoKey \notin Key
ASSUME WorkspacesAssumption == Workspaces \subseteq WorkspaceRecord
ASSUME FiniteAssumption == IsFiniteSet(Name) /\ IsFiniteSet(Key)
(* cook.probe captures its unit without inputs, outputs and dep edges. *)
ASSUME ProbesDeclareNothing ==
  \A w \in Workspaces : \A r \in Name : \A i \in DOMAIN w.recipe[r].units :
    LET u == w.recipe[r].units[i]
    IN u.probe # NoKey => u.ins = {} /\ u.outs = {} /\ u.fine = {}

VARIABLES
  ws,          \* the workspace and the flags, fixed
  stage,       \* "resolve", "sort", "check", "enter", "walk", or how it ended
  reachable,   \* the recipes of this run
  order,       \* the recipes in the order plan() walks them
  at,          \* the position in order of the recipe being walked
  nodes,       \* UnitGraph.nodes: origin and dependencies of each node
  minted,      \* global_synth_by_qualified: <<Cookfile, key>> -> node
  leaves,      \* recipe_leaves
  keys,        \* of this recipe: the probe keys left to synthesise,
  probes,      \*   the body probes left to walk,
  todo,        \*   the other units left to walk,
  probeNode,   \*   key -> node of the probes synthesised or walked,
  unitNode,    \*   unit -> node of the other units walked,
  barrier      \*   and what the next sequential unit waits for

source == <<ws, reachable, order>>
graph == <<nodes, minted>>
walk == <<keys, probes, todo, probeNode, unitNode, barrier>>
vars == <<source, stage, at, graph, leaves, walk>>

----------------------------------------------------------------------------
(* Everything in S or reachable from it along step. *)
ReachFrom(step, S) ==
  LET grown[n \in Nat] ==
        IF n = 0 THEN S
        ELSE LET near == grown[n - 1] IN near \cup UNION {step[x] : x \in near}
  IN grown[Cardinality(DOMAIN step)]

With(f, x, y) == [z \in DOMAIN f \cup {x} |-> IF z = x THEN y ELSE f[z]]

Empty == [x \in {} |-> 0]

Units(r) == ws.recipe[r].units
NonProbes(r) == {i \in DOMAIN Units(r) : Units(r)[i].probe = NoKey}
BodyKeys(r) == {Units(r)[i].probe : i \in DOMAIN Units(r) \ NonProbes(r)}
Upstream(r, k) == ws.upstream[ws.recipe[r].file][k]
Declared(r) == ws.declared[ws.recipe[r].file]

----------------------------------------------------------------------------
(* Which recipes run. *)

FineOf(r) == UNION {Units(r)[i].fine : i \in DOMAIN Units(r)}

(* requires and orders together: closure membership and cycle detection. *)
Edges(r) == ws.recipe[r].requires \cup FineOf(r)

UnknownRecipe ==
  ~ (ws.targets \subseteq ws.names /\ \A r \in ws.names : Edges(r) \subseteq ws.names)

ClosureOf(S) == ReachFrom([r \in ws.names |-> Edges(r)], S)

Cyclic == \E r \in ClosureOf(ws.targets) : r \in ClosureOf(Edges(r))

(* compute_affected: the changed recipes of the closure and what is          *)
(* downstream of them.                                                       *)
ComputeAffected(closure) ==
  closure \cap
    ReachFrom([r \in closure |-> {s \in closure : r \in Edges(s)}],
              ws.changed \cap closure)

(* Only the run command restricts its closure. *)
FiltersAffected == ws.affected /\ ws.command = "run"

Selected ==
  LET closure == ClosureOf(ws.targets)
  IN IF FiltersAffected THEN ComputeAffected(closure) ELSE closure

Resolve ==
  /\ stage = "resolve"
  /\ \/ /\ UnknownRecipe
        /\ stage' = "unknown"
        /\ UNCHANGED reachable
     \/ /\ ~UnknownRecipe /\ Cyclic
        /\ stage' = "cycle"
        /\ UNCHANGED reachable
     \/ /\ ~UnknownRecipe /\ ~Cyclic
        /\ reachable' = Selected
        /\ stage' = IF Selected = {} THEN "nothing" ELSE "sort"
  /\ UNCHANGED <<ws, order, at, graph, leaves, walk>>

(* toposort_recipes: a recipe is placed once its edges inside the slice are. *)
Placed == {order[i] : i \in DOMAIN order}

Sort(r) ==
  /\ stage = "sort"
  /\ r \in reachable \ Placed
  /\ (Edges(r) \cap reachable) \ {r} \subseteq Placed
  /\ order' = Append(order, r)
  /\ stage' = IF reachable \ Placed = {r} THEN "check" ELSE "sort"
  /\ UNCHANGED <<ws, reachable, at, graph, leaves, walk>>

(* The pre-walk over dep_edges. *)
Dangling == \E r \in reachable : ~ (FineOf(r) \subseteq reachable)

CheckEdges ==
  /\ stage = "check"
  /\ stage' = IF Dangling THEN "dangling" ELSE "enter"
  /\ UNCHANGED <<source, at, graph, leaves, walk>>

----------------------------------------------------------------------------
(* Walking one recipe. *)

(* resolve_after: an entry names an output one earlier unit declares. *)
Producers(r, p) == {i \in DOMAIN Units(r) : p \in Units(r)[i].outs}

AfterDeclared(r) ==            \* variant: an entry may name a later unit
  \A i \in DOMAIN Units(r) : \A p \in Units(r)[i].after :
    \E j \in DOMAIN Units(r) : Producers(r, p) = {j}

AfterResolves(r) ==
  \A i \in DOMAIN Units(r) : \A p \in Units(r)[i].after :
    \E j \in 1 .. i - 1 : Producers(r, p) = {j}

(* compute_consumed_probe_keys: what a unit that is no probe names, closed   *)
(* under requires.                                                           *)
Consumed(r) ==
  ReachFrom([k \in Key |-> IF k \in Declared(r) THEN Upstream(r, k) ELSE {}],
            UNION {Units(r)[i].needs : i \in NonProbes(r)})

DeclaredCoarseDeps(r) == ws.recipe[r].requires \cap reachable

CrossDeps(r) ==
  UNION {leaves[d] : d \in DeclaredCoarseDeps(r) \cap DOMAIN leaves}

EnterRecipe(r) ==
  /\ stage = "enter"
  /\ r = order[at]
  /\ \/ /\ ~AfterResolves(r)
        /\ stage' = "after"
        /\ UNCHANGED walk
     \/ /\ AfterResolves(r)
        /\ stage' = "walk"
        /\ keys' = (Consumed(r) \ BodyKeys(r)) \cap Declared(r)
        /\ probes' = {i \in DOMAIN Units(r) \ NonProbes(r) :
                        Units(r)[i].probe \in Consumed(r)}
        /\ todo' = NonProbes(r)
        /\ probeNode' = Empty
        /\ unitNode' = Empty
        /\ barrier' = {}
  /\ UNCHANGED <<source, at, graph, leaves>>

Id(r, k) == <<ws.recipe[r].file, k>>

Node(r, i, k, deps) == [recipe |-> r, unit |-> i, key |-> k, deps |-> deps]

(* A probe node another recipe minted serves this one too; the node keeps    *)
(* the dependencies it has.                                                  *)
ReuseProbeUnion(r, k) ==       \* variant: the later demander's barrier is added
  /\ Id(r, k) \in DOMAIN minted
  /\ nodes' = [nodes EXCEPT ![minted[Id(r, k)]].deps = @ \cup CrossDeps(r)]
  /\ probeNode' = With(probeNode, k, minted[Id(r, k)])
  /\ UNCHANGED minted

ReuseProbe(r, k) ==
  /\ Id(r, k) \in DOMAIN minted
  /\ probeNode' = With(probeNode, k, minted[Id(r, k)])
  /\ UNCHANGED graph

MintProbePerRecipe(r, i, k, deps) ==   \* variant: a body probe is not published
  /\ Id(r, k) \notin DOMAIN minted
  /\ nodes' = Append(nodes, Node(r, i, k, deps))
  /\ minted' = IF i = 0 THEN With(minted, Id(r, k), Len(nodes')) ELSE minted
  /\ probeNode' = With(probeNode, k, Len(nodes'))

MintProbe(r, i, k, deps) ==
  /\ Id(r, k) \notin DOMAIN minted
  /\ nodes' = Append(nodes, Node(r, i, k, deps))
  /\ minted' = With(minted, Id(r, k), Len(nodes'))
  /\ probeNode' = With(probeNode, k, Len(nodes'))

WiredToOne(ks) ==              \* variant: only one of the edges is drawn
  IF ks \cap DOMAIN probeNode = {} THEN {}
  ELSE {probeNode[CHOOSE k \in ks \cap DOMAIN probeNode : TRUE]}

Wired(ks) == {probeNode[k] : k \in ks \cap DOMAIN probeNode}

(* A probe declared outside this body, after the ones it requires; an        *)
(* upstream that is a body probe has no node yet and gets no edge.           *)
SynthProbe(r, k) ==
  /\ stage = "walk"
  /\ r = order[at]
  /\ k \in keys
  /\ Upstream(r, k) \cap keys = {}
  /\ \/ ReuseProbe(r, k)
     \/ MintProbe(r, 0, k, CrossDeps(r) \cup Wired(Upstream(r, k)))
  /\ keys' = keys \ {k}
  /\ UNCHANGED <<source, stage, at, leaves, probes, todo, unitNode, barrier>>

(* Units come after every synthesised probe, and body probes before the      *)
(* rest.  A key without a node ends the plan with UnscheduledProbe.          *)
Needs(r, i) ==
  IF i \in NonProbes(r) THEN Units(r)[i].needs ELSE Upstream(r, Units(r)[i].probe)

FineDeps(r, i) == UNION {leaves[d] : d \in Units(r)[i].fine \cap DOMAIN leaves}

BodyProbe(r, i) ==
  /\ stage = "walk"
  /\ r = order[at]
  /\ keys = {}
  /\ i \in probes
  /\ Needs(r, i) \cap {Units(r)[j].probe : j \in probes} = {}
  /\ \/ /\ ReuseProbe(r, Units(r)[i].probe)
        /\ UNCHANGED stage
     \/ /\ Needs(r, i) \subseteq DOMAIN probeNode
        /\ MintProbe(r, i, Units(r)[i].probe,
                     CrossDeps(r) \cup FineDeps(r, i) \cup Wired(Needs(r, i)))
        /\ UNCHANGED stage
     \/ /\ Id(r, Units(r)[i].probe) \notin DOMAIN minted
        /\ ~(Needs(r, i) \subseteq DOMAIN probeNode)
        /\ stage' = "unscheduled"
        /\ UNCHANGED <<graph, probeNode>>
  /\ probes' = probes \ {i}
  /\ UNCHANGED <<source, at, leaves, keys, todo, unitNode, barrier>>

Group(r, i) == {j \in NonProbes(r) : Units(r)[j].group = Units(r)[i].group}

(* The barrier once unit i has node id: the unit itself when it is           *)
(* sequential, its whole group when it is the last of it.                    *)
BarrierOfLast(r, i, id) ==     \* variant: a group leaves only its last member
  IF \A j \in Group(r, i) : Units(r)[i].group = 0 \/ j <= i THEN {id} ELSE barrier

BarrierAlways(r, i, id) == {id}   \* variant: every unit is its own barrier

Barrier(r, i, id) ==
  IF Units(r)[i].group = 0 THEN {id}
  ELSE IF \A j \in Group(r, i) : j <= i
    THEN {id} \cup {unitNode[j] : j \in Group(r, i) \ {i}}
    ELSE barrier

AfterDeps(r, i) == {unitNode[j] : j \in UNION {Producers(r, p) : p \in Units(r)[i].after}}

Unit(r, i) ==
  /\ stage = "walk"
  /\ r = order[at]
  /\ keys = {} /\ probes = {}
  /\ i \in todo /\ \A j \in todo : i <= j
  /\ \/ /\ Needs(r, i) \subseteq DOMAIN probeNode
        /\ LET before == IF barrier = {} THEN CrossDeps(r) ELSE barrier
               deps == before \cup FineDeps(r, i) \cup AfterDeps(r, i)
                              \cup Wired(Needs(r, i))
               id == Len(nodes) + 1
           IN /\ nodes' = Append(nodes, Node(r, i, NoKey, deps))
              /\ unitNode' = With(unitNode, i, id)
              /\ barrier' = Barrier(r, i, id)
        /\ UNCHANGED stage
     \/ /\ ~(Needs(r, i) \subseteq DOMAIN probeNode)
        /\ stage' = "unscheduled"
        /\ UNCHANGED <<nodes, unitNode, barrier>>
  /\ todo' = todo \ {i}
  /\ UNCHANGED <<source, at, minted, leaves, keys, probes, probeNode>>

(* What downstream recipes wait for; an empty barrier forwards. *)
LeavesOfUnits(r) == barrier    \* variant: an empty barrier forwards nothing

LeavesOf(r) == IF barrier = {} THEN CrossDeps(r) ELSE barrier

LeaveRecipe(r) ==
  /\ stage = "walk"
  /\ r = order[at]
  /\ keys = {} /\ probes = {} /\ todo = {}
  /\ leaves' = With(leaves, r, LeavesOf(r))
  /\ at' = at + 1
  /\ stage' = IF at = Len(order) THEN "done" ELSE "enter"
  /\ UNCHANGED <<source, graph, walk>>

----------------------------------------------------------------------------
Init ==
  /\ ws \in Workspaces
  /\ stage = "resolve"
  /\ reachable = {}
  /\ order = <<>>
  /\ at = 1
  /\ nodes = <<>>
  /\ minted = Empty
  /\ leaves = Empty
  /\ keys = {} /\ probes = {} /\ todo = {}
  /\ probeNode = Empty /\ unitNode = Empty
  /\ barrier = {}

(* plan(), from its check of the named dependencies on. *)
Wire ==
  \/ CheckEdges
  \/ \E r \in Name :
       \/ EnterRecipe(r)
       \/ \E k \in Key : SynthProbe(r, k)
       \/ \E i \in DOMAIN Units(r) : BodyProbe(r, i) \/ Unit(r, i)
       \/ LeaveRecipe(r)

Next ==
  \/ Resolve
  \/ \E r \in Name : Sort(r)
  \/ Wire

Spec == Init /\ [][Next]_vars

----------------------------------------------------------------------------
(* Properties of the finished plan. *)

(* What must finish before n starts, n included. *)
Up(n) == ReachFrom([m \in DOMAIN nodes |-> nodes[m].deps], {n})

UnitsOf(r) == {n \in DOMAIN nodes : nodes[n].recipe = r /\ nodes[n].key = NoKey}
NodeOf(r, i) == CHOOSE n \in DOMAIN nodes : nodes[n].recipe = r /\ nodes[n].unit = i
RequiredBy(r) ==
  ReachFrom([s \in ws.names |-> ws.recipe[s].requires], ws.recipe[r].requires)

(* A dependency is a node added earlier.  build_dag unwraps add_node, which  *)
(* refuses anything else, so a forward edge is a panic.                      *)
PointsBack ==
  \A n \in DOMAIN nodes : nodes[n].deps \subseteq 1 .. n - 1

(* When a unit is reached, every unit its after entries name has a node:     *)
(* plan() looks the node up with expect().                                   *)
ProducersPlaced ==
  stage = "walk" /\ keys = {} /\ probes = {} =>
    \A i \in todo : (\A j \in todo : i <= j) =>
      \A p \in Units(order[at])[i].after : Producers(order[at], p) \subseteq DOMAIN unitNode

(* A recipe waits for the whole of every recipe it requires, through recipes *)
(* without units as well, and in a slice too: every unit of the one comes    *)
(* after every unit of the other.                                            *)
WaitsForRequired ==
  stage = "done" =>
    \A r \in reachable : \A d \in RequiredBy(r) \cap reachable :
      \A n \in UnitsOf(r) : UnitsOf(d) \subseteq Up(n)

(* No node of a recipe waits for a part of another recipe's units: what one  *)
(* dependency across recipes brings is all of them.                          *)
WaitsForWhole ==
  stage = "done" =>
    \A n \in DOMAIN nodes : \A d \in nodes[n].deps :
      nodes[d].key = NoKey /\ nodes[d].recipe # nodes[n].recipe =>
        UnitsOf(nodes[d].recipe) \subseteq Up(n)

(* Inside a recipe the written order holds wherever the author did not open  *)
(* a group: a unit comes after every earlier one whose group is over.  An    *)
(* after entry holds inside a group too, and a unit with a fine reference    *)
(* comes after all of the referenced recipe and what that requires.          *)
Over(r, i, j) == Units(r)[i].group = 0 \/ \A l \in Group(r, i) : l < j

AsWritten ==
  stage = "done" =>
    \A r \in reachable : \A j \in NonProbes(r) :
      LET up == Up(NodeOf(r, j)) IN
      /\ \A i \in NonProbes(r) : i < j /\ Over(r, i, j) => NodeOf(r, i) \in up
      /\ \A p \in Units(r)[j].after : \A i \in Producers(r, p) :
           NodeOf(r, i) \in up
      /\ \A d \in Units(r)[j].fine : \A e \in {d} \cup (RequiredBy(d) \cap reachable) :
           UnitsOf(e) \subseteq up

(* Members of a step group wait for one another only where an after entry    *)
(* says so, theirs or of a unit captured while the group was open.           *)
Orderless(r, j) ==
  \A l \in NonProbes(r) :
    (\E a, b \in Group(r, j) : a <= l /\ l <= b) => Units(r)[l].after = {}

GroupsRunTogether ==
  stage = "done" =>
    \A r \in reachable : \A i, j \in NonProbes(r) :
      /\ i # j /\ Units(r)[i].group # 0 /\ i \in Group(r, j)
      /\ Orderless(r, j)
      => NodeOf(r, i) \notin Up(NodeOf(r, j))

(* However many recipes demand a probe, whether its declaration is in a body *)
(* or not, it has one node; a probe nobody demands or declares has none.     *)
ProbesOnce ==
  stage = "done" =>
    \A f \in File, k \in Key :
      Cardinality({n \in DOMAIN nodes :
                     nodes[n].key = k /\ ws.recipe[nodes[n].recipe].file = f})
        = IF \E r \in reachable :
               ws.recipe[r].file = f /\ k \in Consumed(r) \cap (Declared(r) \cup BodyKeys(r))
          THEN 1 ELSE 0

(* The keys node n reads when it runs. *)
Reads(n) ==
  LET r == nodes[n].recipe
  IN IF nodes[n].key = NoKey THEN Units(r)[nodes[n].unit].needs
     ELSE Upstream(r, nodes[n].key)

WaitsFor(n, k) ==
  \E m \in nodes[n].deps :
    nodes[m].key = k /\ ws.recipe[nodes[m].recipe].file = ws.recipe[nodes[n].recipe].file

(* Every unit comes after the probes it names, and every probe after the     *)
(* ones it requires, except that a synthesised probe waits neither for a     *)
(* body probe of the recipe it was synthesised for nor for a key that nobody *)
(* declares.                                                                 *)
ProbesWired ==
  \A n \in DOMAIN nodes : \A k \in Reads(n) :
    \/ WaitsFor(n, k)
    \/ /\ nodes[n].unit = 0
       /\ LET r == nodes[n].recipe IN k \in BodyKeys(r) \/ k \notin Declared(r)
============================================================================
