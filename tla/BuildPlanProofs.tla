-------------------------- MODULE BuildPlanProofs --------------------------
(***************************************************************************)
(* Proofs about the plan of a build, for every workspace.  First the       *)
(* wiring law of UnitGraph.tla: a node depends only on nodes added before  *)
(* it, so build_dag's add_node never refuses one, and every after entry    *)
(* finds the node of its producer.  Then the gates of BuildPlan.tla, which *)
(* only stand in the way of the plan: a build plans as UnitGraph.tla does, *)
(* or is refused, so what is proved of every plan holds of every build's.  *)
(* Then reachability, as layers counted up to a least number; and with it  *)
(* the slice that is walked (SliceInv), the one node per probe and         *)
(* Cookfile (ProbeInv) and the order of units within and across recipes    *)
(* (OrderInv), from which OrderKept, ProbesPlaced and ReadsAfterWrites     *)
(* follow for every finished plan.                                         *)
(***************************************************************************)
EXTENDS BuildPlan, FiniteSetTheorems, SequenceTheorems, WellFoundedInduction, TLAPS

NodeRecord == [recipe : Name, unit : Nat, key : Key \cup {NoKey}, deps : SUBSET Nat]

Ids == 1 .. Len(nodes)

GraphOK == nodes \in Seq(NodeRecord) /\ PointsBack

(* What the walk remembers of nodes are ids already given out. *)
RefsOK ==
  /\ \A x \in DOMAIN minted : minted[x] \in Ids
  /\ \A r \in DOMAIN leaves : leaves[r] \subseteq Ids
  /\ \A k \in DOMAIN probeNode : probeNode[k] \in Ids
  /\ \A i \in DOMAIN unitNode : unitNode[i] \in Ids
  /\ barrier \subseteq Ids

(* Units are walked in index order and none is forgotten. *)
WalkedUpTo(r) ==
  /\ r \in Name
  /\ AfterResolves(r)
  /\ todo \subseteq NonProbes(r)
  /\ NonProbes(r) \ todo \subseteq DOMAIN unitNode
  /\ \A i \in todo : \A j \in NonProbes(r) : i < j => j \in todo

WalkOK == stage = "walk" => WalkedUpTo(order[at])

PlanInv == ws \in Workspaces /\ GraphOK /\ RefsOK /\ WalkOK
----------------------------------------------------------------------------
(* What With adds and what it keeps. *)
LEMMA WithAdds ==
  ASSUME NEW f, NEW x, NEW y, NEW S, y \in S, \A z \in DOMAIN f : f[z] \in S
  PROVE  /\ DOMAIN With(f, x, y) = DOMAIN f \cup {x}
         /\ \A z \in DOMAIN With(f, x, y) : With(f, x, y)[z] \in S
  BY DEF With

(* The empty table answers for nothing.                                      *)
LEMMA EmptyHasNone == DOMAIN Empty = {}
  BY DEF Empty

(* What a unit of a workspace is.                                            *)
LEMMA UnitTypes ==
  ASSUME ws \in Workspaces, NEW r \in Name
  PROVE  /\ Units(r) \in Seq(UnitRecord)
         /\ NonProbes(r) \subseteq Nat /\ DOMAIN Units(r) \subseteq Nat
         /\ DOMAIN Units(r) = 1 .. Len(Units(r)) /\ Len(Units(r)) \in Nat
         /\ \A i \in DOMAIN Units(r) : Units(r)[i] \in UnitRecord
<1>1. ws \in WorkspaceRecord  BY WorkspacesAssumption
<1>2. ws.recipe[r] \in RecipeRecord  BY <1>1 DEF WorkspaceRecord
<1>3. Units(r) \in Seq(UnitRecord)  BY <1>2 DEF RecipeRecord, Units
<1>4. DOMAIN Units(r) = 1 .. Len(Units(r)) /\ Len(Units(r)) \in Nat
  BY <1>3, LenProperties
<1>5. \A i \in DOMAIN Units(r) : Units(r)[i] \in UnitRecord
  BY <1>3, ElementOfSeq, <1>4
<1> QED  BY <1>3, <1>4, <1>5 DEF NonProbes

(* A new node whose dependencies have ids keeps the graph pointing back. *)
LEMMA OneMoreNode ==
  ASSUME GraphOK, NEW r \in Name, NEW i \in Nat, NEW k \in Key \cup {NoKey},
         NEW deps, deps \subseteq Ids, nodes' = Append(nodes, Node(r, i, k, deps))
  PROVE  /\ GraphOK'
         /\ Len(nodes) \in Nat /\ Len(nodes') = Len(nodes) + 1
         /\ Ids \subseteq Ids' /\ Len(nodes) + 1 \in Ids' /\ Len(nodes') \in Ids'
<1> DEFINE n == Node(r, i, k, deps)
<1>1. Len(nodes) \in Nat  BY LenProperties DEF GraphOK
<1>2. deps \in SUBSET Nat  BY <1>1 DEF Ids
<1>3. n \in NodeRecord  BY <1>2 DEF Node, NodeRecord
<1>4. /\ nodes' \in Seq(NodeRecord)
      /\ Len(nodes') = Len(nodes) + 1
      /\ \A m \in 1 .. Len(nodes) : nodes'[m] = nodes[m]
      /\ nodes'[Len(nodes) + 1] = n
  BY <1>3, AppendProperties DEF GraphOK
<1>5. DOMAIN nodes = Ids /\ DOMAIN nodes' = Ids'
  BY <1>4, LenProperties DEF GraphOK, Ids
<1>6. PointsBack'
  <2> SUFFICES ASSUME NEW m \in Ids' PROVE nodes'[m].deps \subseteq 1 .. m - 1
    BY <1>5 DEF PointsBack
  <2>1. CASE m \in Ids  BY <2>1, <1>4, <1>5 DEF PointsBack, GraphOK, Ids
  <2>2. CASE m = Len(nodes) + 1
    <3>1. nodes'[m].deps = deps  BY <2>2, <1>4 DEF Node
    <3> QED  BY <3>1, <2>2, <1>1 DEF Ids
  <2> QED  BY <2>1, <2>2, <1>1, <1>4 DEF Ids
<1> QED  BY <1>1, <1>4, <1>6 DEF GraphOK, Ids

(* What a recipe waits for has ids. *)
LEMMA CrossHasIds ==
  ASSUME RefsOK, NEW r
  PROVE  CrossDeps(r) \subseteq Ids
  BY DEF RefsOK, CrossDeps

(* A wired probe is a node already there.                                    *)
LEMMA WiredHasIds ==
  ASSUME RefsOK, NEW ks
  PROVE  Wired(ks) \subseteq Ids
  BY DEF RefsOK, Wired

(* So are the nodes a fine-grained edge leads to,                            *)
LEMMA FineHasIds ==
  ASSUME RefsOK, NEW r, NEW i
  PROVE  FineDeps(r, i) \subseteq Ids
  BY DEF RefsOK, FineDeps
----------------------------------------------------------------------------
(* The producers an after entry names are earlier units that are no probes,  *)
(* so they have been walked.                                                 *)
LEMMA ProducersWalked ==
  ASSUME ws \in Workspaces, NEW r, WalkedUpTo(r),
         NEW i \in todo, \A j \in todo : i <= j, NEW p \in Units(r)[i].after
  PROVE  Producers(r, p) \subseteq DOMAIN unitNode
<1>1. r \in Name /\ i \in NonProbes(r)  BY DEF WalkedUpTo
<1>2. i \in DOMAIN Units(r)  BY <1>1 DEF NonProbes
<1>3. PICK j \in 1 .. i - 1 : Producers(r, p) = {j}
  BY <1>2 DEF WalkedUpTo, AfterResolves
<1>4. j \in DOMAIN Units(r) /\ p \in Units(r)[j].outs
  BY <1>3 DEF Producers
<1>5. j \in NonProbes(r)
  BY <1>1, <1>4, ProbesDeclareNothing DEF NonProbes, Units
<1>6. j \notin todo
  <2>1. i \in Nat /\ j \in Nat  BY <1>1, <1>5, UnitTypes
  <2> QED  BY <2>1, <1>3
<1> QED  BY <1>3, <1>5, <1>6 DEF WalkedUpTo

(* the producers an after entry names,                                       *)
LEMMA AfterHasIds ==
  ASSUME ws \in Workspaces, RefsOK, NEW r, WalkedUpTo(r),
         NEW i \in todo, \A j \in todo : i <= j
  PROVE  AfterDeps(r, i) \subseteq Ids
<1> SUFFICES ASSUME NEW p \in Units(r)[i].after, NEW j \in Producers(r, p)
             PROVE  unitNode[j] \in Ids
  BY DEF AfterDeps
<1>1. j \in DOMAIN unitNode  BY ProducersWalked
<1> QED  BY <1>1 DEF RefsOK

(* and whatever the barrier holds.                                           *)
LEMMA BarrierHasIds ==
  ASSUME ws \in Workspaces, RefsOK, NEW r, WalkedUpTo(r),
         NEW i \in todo, \A j \in todo : i <= j, NEW id, NEW S, Ids \subseteq S, id \in S
  PROVE  Barrier(r, i, id) \subseteq S
<1>1. r \in Name /\ i \in NonProbes(r) /\ NonProbes(r) \subseteq Nat
  BY UnitTypes DEF WalkedUpTo
<1>2. CASE Units(r)[i].group = 0
  BY <1>2 DEF Barrier
<1>3. CASE Units(r)[i].group # 0 /\ \A j \in Group(r, i) : j <= i
  <2>1. SUFFICES ASSUME NEW j \in Group(r, i) \ {i} PROVE unitNode[j] \in S
    BY <1>3 DEF Barrier
  <2>2. j \in NonProbes(r) /\ j <= i /\ j # i  BY <1>3 DEF Group
  <2>3. j \notin todo  BY <2>2, <1>1
  <2>4. j \in DOMAIN unitNode  BY <2>2, <2>3 DEF WalkedUpTo
  <2> QED  BY <2>4 DEF RefsOK
<1>4. CASE Units(r)[i].group # 0 /\ ~ (\A j \in Group(r, i) : j <= i)
  BY <1>4 DEF Barrier, RefsOK
<1> QED  BY <1>2, <1>3, <1>4
----------------------------------------------------------------------------
(* Reusing or minting a probe node, as either kind of probe does it. *)
LEMMA ReuseKeeps ==
  ASSUME PlanInv, NEW r, NEW k, ReuseProbe(r, k),
         UNCHANGED <<leaves, unitNode, barrier>>
  PROVE  GraphOK' /\ RefsOK'
<1>1. nodes' = nodes /\ minted' = minted
  BY DEF ReuseProbe, graph
<1>2. GraphOK' /\ Ids' = Ids
  BY <1>1 DEF PlanInv, GraphOK, PointsBack, Ids
<1>3. minted[Id(r, k)] \in Ids
  BY DEF ReuseProbe, PlanInv, RefsOK
<1>4. \A z \in DOMAIN probeNode' : probeNode'[z] \in Ids
  <2>1. \A z \in DOMAIN probeNode : probeNode[z] \in Ids  BY DEF PlanInv, RefsOK
  <2>2. probeNode' = With(probeNode, k, minted[Id(r, k)])  BY DEF ReuseProbe
  <2> QED  BY <2>1, <2>2, <1>3, WithAdds
<1> QED  BY <1>1, <1>2, <1>4 DEF PlanInv, RefsOK

(* Minting a probe keeps the graph and its tables well-formed.               *)
LEMMA MintKeeps ==
  ASSUME PlanInv, NEW r \in Name, NEW i \in Nat, NEW k \in Key \cup {NoKey},
         NEW deps, deps \subseteq Ids, MintProbe(r, i, k, deps),
         UNCHANGED <<leaves, unitNode, barrier>>
  PROVE  GraphOK' /\ RefsOK'
<1>1. /\ nodes' = Append(nodes, Node(r, i, k, deps))
      /\ minted' = With(minted, Id(r, k), Len(nodes'))
      /\ probeNode' = With(probeNode, k, Len(nodes'))
  BY DEF MintProbe
<1>2. GraphOK' /\ Ids \subseteq Ids' /\ Len(nodes') \in Ids'
  BY <1>1, OneMoreNode DEF PlanInv
<1>3. \A x \in DOMAIN minted' : minted'[x] \in Ids'
  <2>1. \A x \in DOMAIN minted : minted[x] \in Ids'  BY <1>2 DEF PlanInv, RefsOK
  <2> QED  BY <2>1, <1>1, <1>2, WithAdds
<1>4. \A x \in DOMAIN probeNode' : probeNode'[x] \in Ids'
  <2>1. \A x \in DOMAIN probeNode : probeNode[x] \in Ids'  BY <1>2 DEF PlanInv, RefsOK
  <2> QED  BY <2>1, <1>1, <1>2, WithAdds
<1> QED  BY <1>2, <1>3, <1>4 DEF PlanInv, RefsOK

(* The steps that leave the units of the recipe alone. *)
LEMMA SameWalk ==
  ASSUME WalkOK, UNCHANGED <<ws, order, at, todo, unitNode>>, stage' = "walk" => stage = "walk"
  PROVE  WalkOK'
  BY DEF WalkOK, WalkedUpTo, NonProbes, AfterResolves, Producers, Units

(* Init establishes the invariant. *)
LEMMA PlanInit == Init => PlanInv
<1> SUFFICES ASSUME Init PROVE PlanInv
  OBVIOUS
<1>1. GraphOK
  <2>1. nodes = <<>> /\ nodes \in Seq(NodeRecord) /\ Len(nodes) = 0
    BY EmptySeq DEF Init
  <2>2. DOMAIN nodes = {}  BY <2>1
  <2> QED  BY <2>1, <2>2 DEF GraphOK, PointsBack
<1>2. RefsOK  BY EmptyHasNone DEF Init, RefsOK
<1>3. WalkOK  BY DEF Init, WalkOK
<1> QED  BY <1>1, <1>2, <1>3 DEF PlanInv, Init

(* Every step keeps it. *)
LEMMA PlanStep == PlanInv /\ [Next]_vars => PlanInv'
<1> SUFFICES ASSUME PlanInv, [Next]_vars PROVE PlanInv'
  OBVIOUS
<1> USE DEF PlanInv
<1>same. ASSUME UNCHANGED <<graph, leaves, probeNode, unitNode, barrier>>
         PROVE  GraphOK' /\ RefsOK'
  BY <1>same DEF graph, GraphOK, PointsBack, RefsOK, Ids
<1>1. CASE UNCHANGED vars
  <2>1. WalkOK'  BY <1>1, SameWalk DEF vars, source, walk
  <2> QED  BY <1>1, <1>same, <2>1 DEF vars, source, walk
<1>2. CASE Resolve
  <2>1. WalkOK'  BY <1>2 DEF Resolve, WalkOK
  <2> QED  BY <1>2, <1>same, <2>1 DEF Resolve, walk
<1>3. CASE CheckEdges
  <2>1. WalkOK'  BY <1>3 DEF CheckEdges, WalkOK
  <2> QED  BY <1>3, <1>same, <2>1 DEF CheckEdges, walk, source
<1>4. ASSUME NEW r \in Name, Sort(r) PROVE PlanInv'
  <2>1. WalkOK'  BY <1>4 DEF Sort, WalkOK
  <2> QED  BY <1>4, <1>same, <2>1 DEF Sort, walk
<1>5. ASSUME NEW r \in Name, EnterRecipe(r) PROVE PlanInv'
  <2>0. ws' = ws /\ order' = order /\ at' = at /\ leaves' = leaves /\ UNCHANGED graph
    BY <1>5 DEF EnterRecipe, source
  <2>1. CASE ~AfterResolves(r) /\ UNCHANGED walk /\ stage' = "after"
    BY <2>0, <2>1, <1>same DEF walk, WalkOK
  <2>2. CASE /\ AfterResolves(r) /\ stage' = "walk" /\ todo' = NonProbes(r)
             /\ probeNode' = Empty /\ unitNode' = Empty /\ barrier' = {}
    <3>1. GraphOK'  BY <2>0 DEF graph, GraphOK, PointsBack
    <3>2. RefsOK'  BY <2>0, <2>2, EmptyHasNone DEF graph, RefsOK, Ids
    <3>3. WalkOK'
      <4>1. order'[at'] = r  BY <2>0, <1>5 DEF EnterRecipe
      <4>2. NonProbes(r)' = NonProbes(r) /\ AfterResolves(r)'
        BY <2>0, <2>2 DEF NonProbes, Units, AfterResolves, Producers
      <4> QED  BY <4>1, <4>2, <2>2 DEF WalkOK, WalkedUpTo
    <3> QED  BY <2>0, <3>1, <3>2, <3>3
  <2> QED  BY <1>5, <2>1, <2>2 DEF EnterRecipe
<1>6. ASSUME NEW r \in Name, NEW k \in Key, SynthProbe(r, k) PROVE PlanInv'
  <2>0. UNCHANGED <<ws, order, at, stage, todo, leaves, unitNode, barrier>>
    BY <1>6 DEF SynthProbe, source
  <2>1. WalkOK'  BY <2>0, SameWalk
  <2>2. CASE ReuseProbe(r, k)  BY <2>0, <2>1, <2>2, ReuseKeeps
  <2>3. CASE MintProbe(r, 0, k, CrossDeps(r) \cup Wired(Upstream(r, k)))
    <3>1. CrossDeps(r) \cup Wired(Upstream(r, k)) \subseteq Ids
      BY CrossHasIds, WiredHasIds
    <3>2. GraphOK' /\ RefsOK'  BY <2>0, <2>3, <3>1, MintKeeps
    <3> QED  BY <2>0, <2>1, <3>2
  <2> QED  BY <1>6, <2>2, <2>3 DEF SynthProbe
<1>7. ASSUME NEW r \in Name, NEW i \in DOMAIN Units(r), BodyProbe(r, i) PROVE PlanInv'
  <2> DEFINE k == Units(r)[i].probe
             deps == CrossDeps(r) \cup FineDeps(r, i) \cup Wired(Needs(r, i))
  <2>0. /\ UNCHANGED <<ws, order, at, todo, leaves, unitNode, barrier>>
        /\ stage' = "walk" => stage = "walk"
    BY <1>7 DEF BodyProbe, source
  <2>1. WalkOK'  BY <2>0, SameWalk
  <2>2. CASE ReuseProbe(r, k)  BY <2>0, <2>1, <2>2, ReuseKeeps
  <2>3. CASE MintProbe(r, i, k, deps)
    <3>1. deps \subseteq Ids  BY CrossHasIds, FineHasIds, WiredHasIds
    <3>2. i \in Nat /\ k \in Key \cup {NoKey}  BY UnitTypes DEF UnitRecord
    <3>3. GraphOK' /\ RefsOK'  BY <2>0, <2>3, <3>1, <3>2, MintKeeps
    <3> QED  BY <2>0, <2>1, <3>3
  <2>4. CASE UNCHANGED <<graph, probeNode>>
    BY <2>0, <2>1, <2>4, <1>same
  <2> QED  BY <1>7, <2>2, <2>3, <2>4 DEF BodyProbe
<1>8. ASSUME NEW r \in Name, NEW i \in DOMAIN Units(r), Unit(r, i) PROVE PlanInv'
  <2> DEFINE id == Len(nodes) + 1
             before == IF barrier = {} THEN CrossDeps(r) ELSE barrier
             deps == before \cup FineDeps(r, i) \cup AfterDeps(r, i)
                            \cup Wired(Needs(r, i))
  <2>0. /\ UNCHANGED <<ws, order, at, minted, leaves, probeNode>>
        /\ stage = "walk" /\ r = order[at] /\ i \in todo /\ todo' = todo \ {i}
        /\ \A j \in todo : i <= j
    BY <1>8 DEF Unit, source
  <2>1. WalkedUpTo(r)  BY <2>0 DEF WalkOK
  <2>2. CASE /\ nodes' = Append(nodes, Node(r, i, NoKey, deps))
             /\ unitNode' = With(unitNode, i, id)
             /\ barrier' = Barrier(r, i, id)
    <3>1. deps \subseteq Ids
      <4>1. before \subseteq Ids  BY CrossHasIds DEF RefsOK
      <4> QED  BY <4>1, <2>0, <2>1, FineHasIds, AfterHasIds, WiredHasIds
    <3>2. i \in Nat  BY UnitTypes
    <3>3. GraphOK' /\ Ids \subseteq Ids' /\ id \in Ids'
      BY <3>1, <3>2, <2>2, OneMoreNode
    <3>4. /\ DOMAIN unitNode' = DOMAIN unitNode \cup {i}
          /\ \A j \in DOMAIN unitNode' : unitNode'[j] \in Ids'
      <4>1. \A j \in DOMAIN unitNode : unitNode[j] \in Ids'  BY <3>3 DEF RefsOK
      <4> QED  BY <4>1, <3>3, <2>2, WithAdds
    <3>5. barrier' \subseteq Ids'  BY <2>0, <2>1, <2>2, <3>3, BarrierHasIds
    <3>6. RefsOK'  BY <3>3, <3>4, <3>5, <2>0 DEF RefsOK
    <3>7. WalkOK'
      <4>1. order'[at'] = r  BY <2>0
      <4>2. NonProbes(r)' = NonProbes(r) /\ AfterResolves(r)'
        BY <2>0, <2>1 DEF WalkedUpTo, NonProbes, Units, AfterResolves, Producers
      <4>3. NonProbes(r) \ todo' \subseteq DOMAIN unitNode'
        BY <2>0, <2>1, <3>4 DEF WalkedUpTo
      <4>4. \A l \in todo' : \A j \in NonProbes(r) : l < j => j \in todo'
        <5> SUFFICES ASSUME NEW l \in todo', NEW j \in NonProbes(r), l < j
                     PROVE  j \in todo'
          OBVIOUS
        <5>1. i <= l /\ l \in NonProbes(r) /\ j \in todo  BY <2>0, <2>1 DEF WalkedUpTo
        <5>2. i \in Nat /\ l \in Nat /\ j \in Nat  BY <5>1, <3>2, UnitTypes
        <5> QED  BY <5>1, <5>2, <2>0
      <4> QED  BY <4>1, <4>2, <4>3, <4>4, <2>0, <2>1 DEF WalkOK, WalkedUpTo
    <3> QED  BY <2>0, <3>3, <3>6, <3>7
  <2>3. CASE stage' = "unscheduled" /\ UNCHANGED <<nodes, unitNode, barrier>>
    <3>1. WalkOK'  BY <2>3 DEF WalkOK
    <3> QED  BY <2>0, <2>3, <3>1, <1>same DEF graph
  <2> QED  BY <1>8, <2>2, <2>3 DEF Unit
<1>9. ASSUME NEW r \in Name, LeaveRecipe(r) PROVE PlanInv'
  <2>0. /\ ws' = ws /\ UNCHANGED <<graph, probeNode, unitNode, barrier>>
        /\ leaves' = With(leaves, r, LeavesOf(r)) /\ stage' # "walk"
    BY <1>9 DEF LeaveRecipe, source, walk
  <2>1. GraphOK' /\ Ids' = Ids  BY <2>0 DEF graph, GraphOK, PointsBack, Ids
  <2>2. LeavesOf(r) \in SUBSET Ids  BY CrossHasIds DEF LeavesOf, RefsOK
  <2>3. \A d \in DOMAIN leaves' : leaves'[d] \in SUBSET Ids
    <3>1. \A d \in DOMAIN leaves : leaves[d] \in SUBSET Ids  BY DEF RefsOK
    <3> QED  BY <3>1, <2>0, <2>2, WithAdds
  <2>4. RefsOK'  BY <2>0, <2>1, <2>3 DEF graph, RefsOK
  <2> QED  BY <2>0, <2>1, <2>4 DEF WalkOK
<1> QED  BY <1>1, <1>2, <1>3, <1>4, <1>5, <1>6, <1>7, <1>8, <1>9 DEF Next, Wire

(* The inductive invariant of the plan. *)
THEOREM PlanInvariance == Spec => []PlanInv
  BY PlanInit, PlanStep, PTL DEF Spec

(* A dependency is always a node added earlier, so lowering the plan never   *)
(* meets an id add_node refuses.                                             *)
THEOREM PlanPointsBack == Spec => []PointsBack
<1>1. PlanInv => PointsBack  BY DEF PlanInv, GraphOK
<1> QED  BY PlanInvariance, <1>1, PTL

(* Every after entry finds the node of the unit it names. *)
THEOREM PlanProducersPlaced == Spec => []ProducersPlaced
<1>1. PlanInv => ProducersPlaced
  BY ProducersWalked DEF PlanInv, WalkOK, ProducersPlaced
<1> QED  BY PlanInvariance, <1>1, PTL
----------------------------------------------------------------------------
(* A step of a build is a step of the plan or leaves it alone.               *)
LEMMA GatesPlanNothing == ASSUME BuildNext PROVE Next \/ UNCHANGED vars
<1>1. CASE Planning
  <2>1. Resolve => Next  BY DEF Next
  <2>2. (\E r \in Name : Sort(r)) => Next  BY DEF Next
  <2>3. Wire => Next  BY DEF Next
  <2> QED  BY <1>1, <2>1, <2>2, <2>3 DEF Planning
<1>2. CASE RejectDuplicateOutputs  BY <1>2 DEF RejectDuplicateOutputs
<1>3. CASE CheckGlobbedOutputs  BY <1>3 DEF CheckGlobbedOutputs
<1>4. CASE CheckLiteralReads  BY <1>4 DEF CheckLiteralReads
<1>5. CASE DetectOutputCollisions  BY <1>5 DEF DetectOutputCollisions
<1>6. CASE Lower  BY <1>6 DEF Lower
<1> QED  BY <1>1, <1>2, <1>3, <1>4, <1>5, <1>6 DEF BuildNext

(* Whatever the gates let through or refuse, the plan is drawn by the one    *)
(* wiring law, unit_graph::plan.                                             *)
THEOREM PlansByTheLaw == BuildSpec => Spec
<1>1. BuildInit => Init  BY DEF BuildInit
<1>2. [BuildNext]_all => [Next]_vars
  <2>1. UNCHANGED all => UNCHANGED vars  BY DEF all
  <2> QED  BY <2>1, GatesPlanNothing
<1> QED  BY <1>1, <1>2, PTL DEF BuildSpec, Spec

(* Whatever the workspace, add_node refuses no node of the plan and every    *)
(* after entry finds the node of its producer.                               *)
THEOREM NeverPanicsCorrect == BuildSpec => []NeverPanics
<1>1. PointsBack /\ ProducersPlaced => NeverPanics  BY DEF NeverPanics
<1> QED  BY <1>1, PlansByTheLaw, PlanPointsBack, PlanProducersPlaced, PTL
----------------------------------------------------------------------------
(* Everything in S and one step further. *)
Near(step, S) == S \cup UNION {step[x] : x \in S}

(* The first n layers of what ReachFrom grows. *)
Layers(step, S, h, n) ==
  DOMAIN h = 0 .. n /\ h[0] = S /\ \A k \in 1 .. n : h[k] = Near(step, h[k - 1])

(* The least element of a set of numbers. *)
LEMMA LeastNat ==
  ASSUME NEW T, T \subseteq Nat, T # {}
  PROVE  \E x \in T : \A y \in T : x <= y
<1>1. PICK x \in T : \A y \in T : ~ (<<y, x>> \in OpToRel(<, Nat))
  BY WFMin, NatLessThanWellFounded
<1>2. \A y \in T : ~ (y < x)
  BY <1>1 DEF OpToRel
<1> QED  BY <1>2

(* However far one counts, the layers are there:                             *)
LEMMA LayersExist ==
  ASSUME NEW step, NEW S, NEW n \in Nat
  PROVE  \E h : Layers(step, S, h, n)
<1> DEFINE T == {m \in Nat : ~ \E h : Layers(step, S, h, m)}
<1> SUFFICES ASSUME T # {} PROVE FALSE
  OBVIOUS
<1>1. PICK m \in T : \A y \in T : m <= y
  <2> HIDE DEF T
  <2>1. T \subseteq Nat  BY DEF T
  <2> QED  BY <2>1, LeastNat
<1>2. m # 0
  <2>1. Layers(step, S, [k \in 0 .. 0 |-> S], 0)  BY DEF Layers
  <2> QED  BY <2>1
<1>3. m - 1 \in Nat /\ m - 1 \notin T  BY <1>1, <1>2
<1>4. PICK h : Layers(step, S, h, m - 1)  BY <1>3
<1> DEFINE g == [k \in 0 .. m |-> IF k = m THEN Near(step, h[m - 1]) ELSE h[k]]
<1>5. Layers(step, S, g, m)
  <2>1. DOMAIN g = 0 .. m /\ g[0] = S  BY <1>2, <1>3, <1>4 DEF Layers
  <2>2. ASSUME NEW k \in 1 .. m PROVE g[k] = Near(step, g[k - 1])
    <3>1. CASE k = m  BY <3>1, <1>3
    <3>2. CASE k # m
      <4>1. k \in 1 .. m - 1  BY <3>2, <1>3
      <4>2. h[k] = Near(step, h[k - 1])  BY <4>1, <1>4 DEF Layers
      <4>3. g[k] = h[k] /\ g[k - 1] = h[k - 1]  BY <4>1
      <4> QED  BY <4>2, <4>3
    <3> QED  BY <3>1, <3>2
  <2> QED  BY <2>1, <2>2 DEF Layers
<1> QED  BY <1>5

(* and there is one such sequence only.                                      *)
LEMMA LayersAgree ==
  ASSUME NEW step, NEW S, NEW g, NEW h, NEW m \in Nat, NEW n \in Nat,
         Layers(step, S, g, m), Layers(step, S, h, n), NEW k \in Nat, k <= m, k <= n
  PROVE  g[k] = h[k]
<1> DEFINE T == {j \in Nat : j <= m /\ j <= n /\ g[j] # h[j]}
<1> SUFFICES ASSUME T # {} PROVE FALSE
  OBVIOUS
<1>1. PICK j \in T : \A y \in T : j <= y
  <2> HIDE DEF T
  <2>1. T \subseteq Nat  BY DEF T
  <2> QED  BY <2>1, LeastNat
<1>2. j # 0  BY DEF Layers
<1>3. j - 1 \in Nat /\ j - 1 \notin T  BY <1>1, <1>2
<1>4. g[j - 1] = h[j - 1]  BY <1>3
<1>5. g[j] = Near(step, g[j - 1]) /\ h[j] = Near(step, h[j - 1])  BY <1>2, <1>3 DEF Layers
<1> QED  BY <1>4, <1>5

(* What ReachFrom computes, layer by layer. *)
LEMMA ReachLayers ==
  ASSUME NEW step, NEW S
  PROVE  \E g : /\ ReachFrom(step, S) = g[Cardinality(DOMAIN step)]
                /\ g[0] = S /\ \A n \in Nat : g[n + 1] = Near(step, g[n])
<1> DEFINE L(n) == CHOOSE h : Layers(step, S, h, n)
           G == [n \in Nat |-> L(n)[n]]
           Grown(g) == g = [n \in Nat |-> IF n = 0 THEN S
                                          ELSE LET near == g[n - 1]
                                               IN near \cup UNION {step[x] : x \in near}]
<1>1. \A n \in Nat : Layers(step, S, L(n), n)  BY LayersExist
<1>2. G[0] = S
  <2>1. L(0)[0] = S  BY <1>1 DEF Layers
  <2> QED  BY <2>1
<1>3. ASSUME NEW n \in Nat PROVE G[n + 1] = Near(step, G[n])
  <2> HIDE DEF L
  <2>1. L(n + 1)[n + 1] = Near(step, L(n + 1)[n])  BY <1>1 DEF Layers
  <2>2. L(n + 1)[n] = L(n)[n]
    <3>1. Layers(step, S, L(n), n) /\ Layers(step, S, L(n + 1), n + 1)  BY <1>1
    <3> QED  BY <3>1, LayersAgree
  <2> QED  BY <2>1, <2>2
<1>4. Grown(G)
  <2> DEFINE F == [n \in Nat |-> IF n = 0 THEN S ELSE Near(step, G[n - 1])]
  <2>1. ASSUME NEW n \in Nat PROVE G[n] = F[n]
    <3>1. CASE n = 0  BY <3>1, <1>2
    <3>2. CASE n # 0
      <4>1. n - 1 \in Nat /\ (n - 1) + 1 = n  BY <3>2
      <4>2. G[(n - 1) + 1] = Near(step, G[n - 1])  BY <4>1, <1>3
      <4> HIDE DEF G
      <4> QED  BY <4>1, <4>2, <3>2
    <3> QED  BY <3>1, <3>2
  <2>2. G = F
    <3>1. DOMAIN G = Nat /\ G = [n \in Nat |-> G[n]]  OBVIOUS
    <3> HIDE DEF G
    <3> QED  BY <2>1, <3>1
  <2> QED  BY <2>2 DEF Near
<1> DEFINE g == CHOOSE x : Grown(x)
<1>5. Grown(g)
  <2> HIDE DEF Grown, G
  <2> QED  BY <1>4
<1>6. g[0] = S /\ \A n \in Nat : g[n + 1] = Near(step, g[n])
  <2> DEFINE F == [n \in Nat |-> IF n = 0 THEN S ELSE Near(step, g[n - 1])]
  <2>1. g = F  BY <1>5 DEF Near
  <2>2. F[0] = S /\ \A n \in Nat : F[n + 1] = Near(step, g[(n + 1) - 1])
    <3> HIDE DEF g
    <3> QED  OBVIOUS
  <2>3. \A n \in Nat : (n + 1) - 1 = n  OBVIOUS
  <2> HIDE DEF F, g
  <2> QED  BY <2>1, <2>2, <2>3
<1>7. ReachFrom(step, S) = g[Cardinality(DOMAIN step)]  BY DEF ReachFrom
<1> QED  BY <1>6, <1>7

(* ReachFrom holds where it starts. *)
LEMMA ReachHas ==
  ASSUME NEW step, IsFiniteSet(DOMAIN step), NEW S
  PROVE  S \subseteq ReachFrom(step, S)
<1>1. PICK g : /\ ReachFrom(step, S) = g[Cardinality(DOMAIN step)]
               /\ g[0] = S /\ \A n \in Nat : g[n + 1] = Near(step, g[n])
  BY ReachLayers
<1> DEFINE T == {m \in Nat : ~ (S \subseteq g[m])}
<1>2. T = {}
  <2> SUFFICES ASSUME T # {} PROVE FALSE
    OBVIOUS
  <2>1. PICK m \in T : \A y \in T : m <= y
    <3> HIDE DEF T
    <3>1. T \subseteq Nat  BY DEF T
    <3> QED  BY <3>1, LeastNat
  <2>2. m # 0  BY <1>1
  <2>3. m - 1 \in Nat /\ m - 1 \notin T /\ (m - 1) + 1 = m  BY <2>1, <2>2
  <2>4. S \subseteq g[m - 1]  BY <2>3
  <2>5. g[m] = Near(step, g[m - 1])  BY <1>1, <2>3
  <2> QED  BY <2>1, <2>4, <2>5 DEF Near
<1> QED  BY <1>1, <1>2, FS_CardinalityType

(* It is within every set that holds S and is closed under step. *)
LEMMA ReachLeast ==
  ASSUME NEW step, IsFiniteSet(DOMAIN step), NEW S, NEW X, S \subseteq X,
         \A x \in X : step[x] \subseteq X
  PROVE  ReachFrom(step, S) \subseteq X
<1>1. PICK g : /\ ReachFrom(step, S) = g[Cardinality(DOMAIN step)]
               /\ g[0] = S /\ \A n \in Nat : g[n + 1] = Near(step, g[n])
  BY ReachLayers
<1> DEFINE T == {m \in Nat : ~ (g[m] \subseteq X)}
<1>2. T = {}
  <2> SUFFICES ASSUME T # {} PROVE FALSE
    OBVIOUS
  <2>1. PICK m \in T : \A y \in T : m <= y
    <3> HIDE DEF T
    <3>1. T \subseteq Nat  BY DEF T
    <3> QED  BY <3>1, LeastNat
  <2>2. m # 0  BY <1>1
  <2>3. m - 1 \in Nat /\ m - 1 \notin T /\ (m - 1) + 1 = m  BY <2>1, <2>2
  <2>4. g[m - 1] \subseteq X  BY <2>3
  <2>5. g[m] = Near(step, g[m - 1])  BY <1>1, <2>3
  <2> QED  BY <2>1, <2>4, <2>5 DEF Near
<1> QED  BY <1>1, <1>2, FS_CardinalityType

(* On a finite graph the layers stop growing, so it is closed under step.    *)
LEMMA ReachClosed ==
  ASSUME NEW step, IsFiniteSet(DOMAIN step), NEW S, S \subseteq DOMAIN step,
         \A x \in DOMAIN step : step[x] \subseteq DOMAIN step
  PROVE  /\ ReachFrom(step, S) \subseteq DOMAIN step
         /\ \A x \in ReachFrom(step, S) : step[x] \subseteq ReachFrom(step, S)
<1> DEFINE D == DOMAIN step
           N == Cardinality(D)
<1>0. ReachFrom(step, S) \subseteq D  BY ReachLeast
<1>1. PICK g : /\ ReachFrom(step, S) = g[N]
               /\ g[0] = S /\ \A n \in Nat : g[n + 1] = Near(step, g[n])
  BY ReachLayers
<1> DEFINE Full(n) == g[n + 1] = g[n]
           T == {m \in Nat : ~ (/\ g[m] \subseteq D
                                /\ IsFiniteSet(g[m])
                                /\ Full(m) \/ Cardinality(g[m]) >= m)}
<1>n. N \in Nat  BY FS_CardinalityType
<1>2. T = {}
  <2> SUFFICES ASSUME T # {} PROVE FALSE
    OBVIOUS
  <2>1. PICK m \in T : \A y \in T : m <= y
    <3> HIDE DEF T
    <3>1. T \subseteq Nat  BY DEF T
    <3> QED  BY <3>1, LeastNat
  <2>2. m # 0
    <3>1. g[0] \subseteq D /\ IsFiniteSet(g[0])  BY <1>1, FS_Subset
    <3>2. Cardinality(g[0]) >= 0  BY <3>1, FS_CardinalityType
    <3> QED  BY <3>1, <3>2
  <2>3. m - 1 \in Nat /\ m - 1 \notin T /\ (m - 1) + 1 = m  BY <2>1, <2>2
  <2>4. /\ g[m - 1] \subseteq D /\ IsFiniteSet(g[m - 1])
        /\ Full(m - 1) \/ Cardinality(g[m - 1]) >= m - 1
    BY <2>3
  <2>5. g[m] = Near(step, g[m - 1]) /\ g[m + 1] = Near(step, g[m])  BY <1>1, <2>3
  <2>6. g[m] \subseteq D /\ IsFiniteSet(g[m])
    <3>1. g[m] \subseteq D  BY <2>4, <2>5 DEF Near
    <3> QED  BY <3>1, FS_Subset
  <2>7. CASE g[m] = g[m - 1]
    <3>1. g[m + 1] = g[m]  BY <2>7, <2>5
    <3> QED  BY <3>1, <2>1, <2>6
  <2>8. CASE g[m] # g[m - 1]
    <3>1. ~Full(m - 1)  BY <2>8, <2>3
    <3>2. Cardinality(g[m - 1]) >= m - 1  BY <3>1, <2>4
    <3>3. g[m - 1] \subseteq g[m]  BY <2>5 DEF Near
    <3>5. Cardinality(g[m - 1]) \in Nat /\ Cardinality(g[m]) \in Nat
      BY <2>4, <2>6, FS_CardinalityType
    <3>4. Cardinality(g[m - 1]) < Cardinality(g[m])
      <4>1. /\ Cardinality(g[m - 1]) <= Cardinality(g[m])
            /\ Cardinality(g[m - 1]) # Cardinality(g[m])
        BY <3>3, <2>6, <2>8, FS_Subset
      <4> QED  BY <4>1, <3>5
    <3>6. Cardinality(g[m]) >= m
      <4>1. \A a, b, c \in Nat : a >= c - 1 /\ a < b => b >= c  OBVIOUS
      <4> QED  BY <4>1, <3>2, <3>4, <3>5
    <3> QED  BY <3>6, <2>1, <2>6
  <2> QED  BY <2>7, <2>8
<1>3. g[N] \subseteq D /\ (Full(N) \/ Cardinality(g[N]) >= N)
  <2>1. N \notin T  BY <1>2
  <2> HIDE DEF Full, N
  <2> QED  BY <2>1, <1>n
<1>4. CASE Full(N)
  <2>1. g[N] = Near(step, g[N])  BY <1>4, <1>1, <1>n
  <2>2. \A x \in g[N] : step[x] \subseteq g[N]  BY <2>1 DEF Near
  <2> QED  BY <2>2, <1>0, <1>1
<1>5. CASE Cardinality(g[N]) >= N
  <2>1. g[N] = D
    <3> SUFFICES ASSUME g[N] # D PROVE FALSE
      OBVIOUS
    <3>1. /\ Cardinality(g[N]) <= N /\ N # Cardinality(g[N])
          /\ IsFiniteSet(g[N])
      BY <1>3, FS_Subset
    <3>2. Cardinality(g[N]) \in Nat  BY <3>1, FS_CardinalityType
    <3> QED  BY <3>1, <3>2, <1>5, <1>n
  <2> QED  BY <2>1, <1>0, <1>1
<1> QED  BY <1>3, <1>4, <1>5
----------------------------------------------------------------------------
(* The graph and what is upstream in it, of any sequence of nodes.           *)
Back(ns) == ns \in Seq(NodeRecord) /\ \A n \in DOMAIN ns : ns[n].deps \subseteq 1 .. n - 1
UpIn(ns, n) == ReachFrom([m \in DOMAIN ns |-> ns[m].deps], {n})
BelowIn(ns, S) == UNION {UpIn(ns, l) : l \in S}

(* Reachability over a graph that points back: it stays in the graph, below  *)
(* the node.                                                                 *)
LEMMA UpFacts ==
  ASSUME NEW ns, Back(ns), NEW n \in DOMAIN ns
  PROVE  /\ n \in UpIn(ns, n) /\ UpIn(ns, n) \subseteq DOMAIN ns
         /\ \A x \in UpIn(ns, n) : x <= n
         /\ \A x \in UpIn(ns, n) : ns[x].deps \subseteq UpIn(ns, n)
<1> DEFINE step == [m \in DOMAIN ns |-> ns[m].deps]
<1>1. DOMAIN ns = 1 .. Len(ns) /\ Len(ns) \in Nat  BY LenProperties DEF Back
<1>2. DOMAIN step = DOMAIN ns /\ \A m \in DOMAIN ns : step[m] = ns[m].deps
  OBVIOUS
<1>3. IsFiniteSet(DOMAIN step)  BY <1>1, <1>2, FS_Interval
<1>4. \A x \in DOMAIN step : step[x] \subseteq DOMAIN step
  BY <1>1, <1>2 DEF Back
<1>5. {n} \subseteq DOMAIN step  BY <1>2
<1>6. UpIn(ns, n) = ReachFrom(step, {n})  BY DEF UpIn
<1> HIDE DEF step
<1>7. n \in UpIn(ns, n)
  <2>1. {n} \subseteq ReachFrom(step, {n})  BY <1>3, ReachHas
  <2> QED  BY <2>1, <1>6
<1>8. /\ UpIn(ns, n) \subseteq DOMAIN ns
      /\ \A x \in UpIn(ns, n) : ns[x].deps \subseteq UpIn(ns, n)
  <2>1. /\ ReachFrom(step, {n}) \subseteq DOMAIN step
        /\ \A x \in ReachFrom(step, {n}) : step[x] \subseteq ReachFrom(step, {n})
    BY <1>3, <1>4, <1>5, ReachClosed
  <2> QED  BY <2>1, <1>2, <1>6
<1>9. \A x \in UpIn(ns, n) : x <= n
  <2> DEFINE X == {x \in DOMAIN ns : x <= n}
  <2>1. {n} \subseteq X /\ \A x \in X : step[x] \subseteq X
    <3>1. {n} \subseteq X  BY <1>1
    <3>2. ASSUME NEW x \in X, NEW d \in step[x] PROVE d \in X
      <4>1. d \in 1 .. x - 1  BY <1>2, <3>2 DEF Back
      <4> QED  BY <4>1, <1>1
    <3> QED  BY <3>1, <3>2
  <2> HIDE DEF X
  <2>2. ReachFrom(step, {n}) \subseteq X  BY <1>3, <2>1, ReachLeast
  <2> QED  BY <2>2, <1>6 DEF X
<1> QED  BY <1>7, <1>8, <1>9

(* It is the least set that holds n and what its members depend on. *)
LEMMA UpLeast ==
  ASSUME NEW ns, Back(ns), NEW n \in DOMAIN ns, NEW X, n \in X,
         \A x \in X \cap DOMAIN ns : ns[x].deps \subseteq X
  PROVE  UpIn(ns, n) \subseteq X
<1> DEFINE step == [m \in DOMAIN ns |-> ns[m].deps]
           Y == X \cap DOMAIN ns
<1>1. DOMAIN ns = 1 .. Len(ns) /\ Len(ns) \in Nat  BY LenProperties DEF Back
<1>2. DOMAIN step = DOMAIN ns /\ \A m \in DOMAIN ns : step[m] = ns[m].deps
  OBVIOUS
<1>3. IsFiniteSet(DOMAIN step)  BY <1>1, <1>2, FS_Interval
<1>4. {n} \subseteq Y /\ \A x \in Y : step[x] \subseteq Y
  <2>1. \A x \in DOMAIN ns : ns[x].deps \subseteq DOMAIN ns  BY <1>1 DEF Back
  <2> QED  BY <2>1, <1>2
<1>6. UpIn(ns, n) = ReachFrom(step, {n})  BY DEF UpIn
<1> HIDE DEF step, Y
<1>7. ReachFrom(step, {n}) \subseteq Y  BY <1>3, <1>4, ReachLeast
<1> QED  BY <1>6, <1>7 DEF Y

(* What is upstream of something upstream is upstream. *)
LEMMA UpUp ==
  ASSUME NEW ns, Back(ns), NEW n \in DOMAIN ns, NEW x \in UpIn(ns, n)
  PROVE  UpIn(ns, x) \subseteq UpIn(ns, n)
<1>1. x \in DOMAIN ns /\ \A y \in UpIn(ns, n) : ns[y].deps \subseteq UpIn(ns, n)
  BY UpFacts
<1> QED  BY <1>1, UpLeast

(* A node reaches its dependencies and all that they reach.                  *)
LEMMA UpDeps ==
  ASSUME NEW ns, Back(ns), NEW n \in DOMAIN ns, NEW S, S \subseteq ns[n].deps
  PROVE  S \subseteq UpIn(ns, n) /\ BelowIn(ns, S) \subseteq UpIn(ns, n)
<1>1. S \subseteq UpIn(ns, n)  BY UpFacts
<1> QED  BY <1>1, UpUp DEF BelowIn

(* One more node changes nothing upstream of the others. *)
LEMMA UpAppend ==
  ASSUME NEW ns, Back(ns), NEW e \in NodeRecord, e.deps \subseteq DOMAIN ns,
         NEW ms, ms = Append(ns, e), Back(ms)
  PROVE  /\ \A m \in DOMAIN ns : UpIn(ms, m) = UpIn(ns, m)
         /\ UpIn(ms, Len(ns) + 1) = {Len(ns) + 1} \cup BelowIn(ns, e.deps)
<1>1. /\ DOMAIN ns = 1 .. Len(ns) /\ Len(ns) \in Nat
      /\ DOMAIN ms = 1 .. Len(ms) /\ Len(ms) = Len(ns) + 1
      /\ \A m \in DOMAIN ns : ms[m] = ns[m]
      /\ ms[Len(ns) + 1] = e
  BY LenProperties, AppendProperties DEF Back
<1>2. DOMAIN ns \subseteq DOMAIN ms /\ DOMAIN ms = DOMAIN ns \cup {Len(ns) + 1}
  BY <1>1
<1>3. ASSUME NEW m \in DOMAIN ns PROVE UpIn(ms, m) = UpIn(ns, m)
  <2>1. UpIn(ms, m) \subseteq UpIn(ns, m)
    <3>1. /\ m \in UpIn(ns, m)
          /\ \A x \in UpIn(ns, m) : x \in DOMAIN ns /\ ns[x].deps \subseteq UpIn(ns, m)
      BY UpFacts
    <3>2. \A x \in UpIn(ns, m) \cap DOMAIN ms : ms[x].deps \subseteq UpIn(ns, m)
      BY <3>1, <1>1
    <3>3. m \in DOMAIN ms  BY <1>2
    <3> DEFINE X == UpIn(ns, m)
    <3>4. m \in X /\ \A x \in X \cap DOMAIN ms : ms[x].deps \subseteq X  BY <3>1, <3>2
    <3> HIDE DEF X
    <3>5. UpIn(ms, m) \subseteq X  BY <3>3, <3>4, UpLeast
    <3> QED  BY <3>5 DEF X
  <2>2. UpIn(ns, m) \subseteq UpIn(ms, m)
    <3>1. /\ m \in UpIn(ms, m)
          /\ \A x \in UpIn(ms, m) : ms[x].deps \subseteq UpIn(ms, m)
      BY <1>2, UpFacts
    <3>2. \A x \in UpIn(ms, m) \cap DOMAIN ns : ns[x].deps \subseteq UpIn(ms, m)
      BY <3>1, <1>1
    <3> QED  BY <3>1, <3>2, UpLeast
  <2> QED  BY <2>1, <2>2
<1>4. UpIn(ms, Len(ns) + 1) \subseteq {Len(ns) + 1} \cup BelowIn(ns, e.deps)
  <2> DEFINE X == {Len(ns) + 1} \cup BelowIn(ns, e.deps)
             i == Len(ns) + 1
  <2>1. i \in DOMAIN ms  BY <1>2
  <2>2. ASSUME NEW x \in X \cap DOMAIN ms PROVE ms[x].deps \subseteq X
    <3>1. CASE x = i
      <4>1. ms[x].deps = e.deps  BY <3>1, <1>1
      <4>2. \A d \in e.deps : d \in UpIn(ns, d)  BY UpFacts
      <4> QED  BY <4>1, <4>2 DEF BelowIn
    <3>2. CASE x # i
      <4>1. PICK d \in e.deps : x \in UpIn(ns, d)  BY <3>2 DEF BelowIn
      <4>3. d \in DOMAIN ns  BY <4>1
      <4>2. x \in DOMAIN ns /\ ns[x].deps \subseteq UpIn(ns, d)  BY <4>1, <4>3, UpFacts
      <4> QED  BY <4>1, <4>2, <1>1 DEF BelowIn
    <3> QED  BY <3>1, <3>2
  <2>3. i \in X  OBVIOUS
  <2> HIDE DEF X, i
  <2>4. UpIn(ms, i) \subseteq X  BY <2>1, <2>2, <2>3, UpLeast
  <2> QED  BY <2>4 DEF X, i
<1>5. {Len(ns) + 1} \cup BelowIn(ns, e.deps) \subseteq UpIn(ms, Len(ns) + 1)
  <2> DEFINE i == Len(ns) + 1
  <2>1. i \in DOMAIN ms /\ ms[i].deps = e.deps  BY <1>1, <1>2
  <2> HIDE DEF i
  <2>2. i \in UpIn(ms, i) /\ BelowIn(ms, e.deps) \subseteq UpIn(ms, i)
    BY <2>1, UpFacts, UpDeps
  <2>3. BelowIn(ms, e.deps) = BelowIn(ns, e.deps)  BY <1>3 DEF BelowIn
  <2> QED  BY <2>2, <2>3 DEF i
<1> QED  BY <1>3, <1>4, <1>5
----------------------------------------------------------------------------
(* The recipes of a run: closed under edges as far as the slice goes, and    *)
(* walked once each, after all they have edges to.                           *)
SliceOK ==
  stage \notin {"resolve", "unknown", "cycle"} =>
    /\ ~UnknownRecipe
    /\ reachable \subseteq ClosureOf(ws.targets)
    /\ \A r \in ClosureOf(ws.targets) :
         /\ r \notin Edges(r)
         /\ \A d \in reachable \cap Edges(r) : r \in reachable

OrderOK ==
  /\ order \in Seq(Name) /\ Placed \subseteq reachable
  /\ \A i, j \in DOMAIN order : order[i] = order[j] => i = j
  /\ \A i \in DOMAIN order : \A d \in Edges(order[i]) \cap reachable :
       d # order[i] => \E j \in 1 .. i - 1 : order[j] = d

RouteOK ==
  /\ at \in Nat \ {0}
  /\ DOMAIN leaves = {order[i] : i \in 1 .. at - 1}
  /\ stage \in {"resolve", "unknown", "cycle", "nothing", "sort", "check", "dangling"} =>
       at = 1 /\ nodes = <<>>
  /\ stage \in {"resolve", "unknown", "cycle", "nothing"} => order = <<>>
  /\ stage \in {"enter", "walk", "after", "unscheduled"} => at \in DOMAIN order
  /\ stage \in {"enter", "walk", "done"} => Placed = reachable /\ ~Dangling
  /\ stage = "done" => at = Len(order) + 1
  /\ stage = "check" => Placed = reachable /\ reachable # {}

SliceInv == SliceOK /\ OrderOK /\ RouteOK

(* The closure of some recipes holds them and is closed under edges.         *)
LEMMA ClosureFacts ==
  ASSUME ws \in Workspaces, ~UnknownRecipe, NEW S, S \subseteq ws.names
  PROVE  /\ S \subseteq ClosureOf(S) /\ ClosureOf(S) \subseteq ws.names
         /\ \A r \in ClosureOf(S) : Edges(r) \subseteq ClosureOf(S)
<1> DEFINE step == [r \in ws.names |-> Edges(r)]
<1>1. ws.names \subseteq Name  BY WorkspacesAssumption DEF WorkspaceRecord
<1>2. DOMAIN step = ws.names /\ \A r \in ws.names : step[r] = Edges(r)  OBVIOUS
<1>3. IsFiniteSet(DOMAIN step)  BY <1>1, <1>2, FiniteAssumption, FS_Subset
<1>4. \A r \in DOMAIN step : step[r] \subseteq DOMAIN step  BY <1>2 DEF UnknownRecipe
<1>5. ClosureOf(S) = ReachFrom(step, S)  BY DEF ClosureOf
<1> HIDE DEF step
<1>6. S \subseteq ReachFrom(step, S)  BY <1>3, ReachHas
<1>7. /\ ReachFrom(step, S) \subseteq DOMAIN step
      /\ \A r \in ReachFrom(step, S) : step[r] \subseteq ReachFrom(step, S)
  BY <1>2, <1>3, <1>4, ReachClosed
<1> QED  BY <1>2, <1>5, <1>6, <1>7

(* A slice holds everything of the closure downstream of what it holds.      *)
LEMMA AffectedFacts ==
  ASSUME NEW C, IsFiniteSet(C)
  PROVE  /\ ComputeAffected(C) \subseteq C
         /\ \A d \in ComputeAffected(C) : \A r \in C : d \in Edges(r) => r \in ComputeAffected(C)
<1> DEFINE step == [r \in C |-> {s \in C : r \in Edges(s)}]
           S == ws.changed \cap C
<1>1. DOMAIN step = C /\ \A r \in C : step[r] = {s \in C : r \in Edges(s)}  OBVIOUS
<1>2. S \subseteq DOMAIN step /\ \A r \in DOMAIN step : step[r] \subseteq DOMAIN step
  BY <1>1
<1>3. ComputeAffected(C) = C \cap ReachFrom(step, S)  BY DEF ComputeAffected
<1> HIDE DEF step, S
<1>4. \A r \in ReachFrom(step, S) : step[r] \subseteq ReachFrom(step, S)
  BY <1>1, <1>2, ReachClosed
<1> QED  BY <1>1, <1>3, <1>4

(* resolve_units takes a closed set of recipes.                              *)
LEMMA ResolveSlice == ASSUME PlanInv, SliceInv, Resolve PROVE SliceInv'
<1>0. /\ ws' = ws /\ order' = order /\ at' = at /\ nodes' = nodes /\ leaves' = leaves
      /\ stage = "resolve"
  BY DEF Resolve, graph
<1>1. order = <<>> /\ at = 1  BY <1>0 DEF SliceInv, RouteOK
<1>2. OrderOK'
  <2>1. order' \in Seq(Name) /\ DOMAIN order' = {}  BY <1>0, <1>1 DEF SliceInv, OrderOK
  <2> QED  BY <2>1 DEF OrderOK, Placed
<1>3. RouteOK'
  <2>1. stage' \in {"unknown", "cycle", "nothing", "sort"}  BY DEF Resolve
  <2> QED  BY <2>1, <1>0, <1>1 DEF SliceInv, RouteOK
<1>4. SliceOK'
  <2>1. CASE UnknownRecipe \/ Cyclic
    <3>1. stage' \in {"unknown", "cycle"}  BY <2>1 DEF Resolve
    <3> QED  BY <3>1 DEF SliceOK
  <2>2. CASE ~UnknownRecipe /\ ~Cyclic
    <3> DEFINE C == ClosureOf(ws.targets)
    <3>1. reachable' = IF FiltersAffected THEN ComputeAffected(C) ELSE C
      BY <2>2 DEF Resolve, Selected
    <3>2. /\ ws.targets \subseteq ws.names /\ C \subseteq ws.names
          /\ \A r \in C : Edges(r) \subseteq C
      <4>1. ws.targets \subseteq ws.names  BY <2>2 DEF UnknownRecipe
      <4> QED  BY <4>1, <2>2, ClosureFacts DEF PlanInv
    <3>3. IsFiniteSet(C)
      <4>1. ws.names \subseteq Name
        BY WorkspacesAssumption DEF WorkspaceRecord, PlanInv
      <4> QED  BY <4>1, <3>2, FiniteAssumption, FS_Subset
    <3>4. \A r \in C : r \notin Edges(r)
      <4> SUFFICES ASSUME NEW r \in C PROVE r \notin Edges(r)
        OBVIOUS
      <4>1. r \notin ClosureOf(Edges(r))  BY <2>2 DEF Cyclic
      <4>2. Edges(r) \subseteq ws.names  BY <3>2
      <4>3. Edges(r) \subseteq ClosureOf(Edges(r))
        BY <4>2, <2>2, ClosureFacts DEF PlanInv
      <4> QED  BY <4>1, <4>3
    <3> HIDE DEF C
    <3>5. reachable' \subseteq C /\ \A r \in C : \A d \in reachable' \cap Edges(r) : r \in reachable'
      <4>1. CASE ~FiltersAffected  BY <4>1, <3>1
      <4>2. CASE FiltersAffected  BY <4>2, <3>1, <3>3, AffectedFacts
      <4> QED  BY <4>1, <4>2
    <3>6. C = ClosureOf(ws.targets) /\ C = ClosureOf(ws.targets)'
      BY <1>0 DEF C, ClosureOf, Edges, FineOf, Units
    <3>7. \A r : Edges(r)' = Edges(r)  BY <1>0 DEF Edges, FineOf, Units
    <3>8. UnknownRecipe' = UnknownRecipe  BY <1>0 DEF UnknownRecipe, Edges, FineOf, Units
    <3> QED  BY <2>2, <3>4, <3>5, <3>6, <3>7, <3>8 DEF SliceOK
  <2> QED  BY <2>1, <2>2
<1> QED  BY <1>2, <1>3, <1>4 DEF SliceInv

(* The steps after Resolve leave the slice alone. *)
LEMMA SameSlice ==
  ASSUME SliceOK, ws' = ws, reachable' = reachable,
         stage \notin {"resolve", "unknown", "cycle"}
               \/ stage' \in {"resolve", "unknown", "cycle"}
  PROVE  SliceOK'
<1>1. \A r : Edges(r)' = Edges(r)  BY DEF Edges, FineOf, Units
<1>2. UnknownRecipe' = UnknownRecipe  BY DEF UnknownRecipe, Edges, FineOf, Units
<1>3. ClosureOf(ws.targets)' = ClosureOf(ws.targets)  BY DEF ClosureOf, Edges, FineOf, Units
<1> QED  BY <1>1, <1>2, <1>3 DEF SliceOK

(* An order is kept while the slice and the workspace are.                   *)
LEMMA SameOrder ==
  ASSUME OrderOK, UNCHANGED source PROVE OrderOK' /\ Placed' = Placed /\ Dangling' = Dangling
<1>1. ws' = ws /\ reachable' = reachable /\ order' = order  BY DEF source
<1>2. \A r : Edges(r)' = Edges(r)  BY <1>1 DEF Edges, FineOf, Units
<1>3. Placed' = Placed  BY <1>1 DEF Placed
<1> QED  BY <1>1, <1>2, <1>3 DEF OrderOK, Dangling, FineOf, Units

(* The sort keeps every recipe once, behind what it depends on.              *)
LEMMA SortSlice ==
  ASSUME PlanInv, SliceInv, NEW r \in Name, Sort(r) PROVE SliceInv'
<1>0. /\ UNCHANGED <<ws, reachable, at, nodes, leaves>> /\ stage = "sort"
      /\ r \in reachable \ Placed /\ (Edges(r) \cap reachable) \ {r} \subseteq Placed
      /\ order' = Append(order, r)
      /\ stage' = IF reachable \ Placed = {r} THEN "check" ELSE "sort"
  BY DEF Sort, graph
<1>1. /\ order' \in Seq(Name) /\ Len(order) \in Nat /\ Len(order') = Len(order) + 1
      /\ DOMAIN order = 1 .. Len(order) /\ DOMAIN order' = 1 .. Len(order) + 1
      /\ \A i \in 1 .. Len(order) : order'[i] = order[i]
      /\ order'[Len(order) + 1] = r
  BY <1>0, AppendProperties, LenProperties DEF SliceInv, OrderOK
<1>2. SliceOK'  BY <1>0, SameSlice DEF SliceInv
<1>3. Placed' = Placed \cup {r}
  <2>1. \A i \in DOMAIN order' : order'[i] \in Placed \cup {r}
    BY <1>1 DEF Placed
  <2>2. \A x \in Placed \cup {r} : \E i \in DOMAIN order' : order'[i] = x
    BY <1>1 DEF Placed
  <2> QED  BY <2>1, <2>2 DEF Placed
<1>4. OrderOK'
  <2>1. \A i, j \in DOMAIN order' : order'[i] = order'[j] => i = j
    <3>1. \A i \in 1 .. Len(order) : order[i] # r  BY <1>0, <1>1 DEF Placed
    <3> QED  BY <3>1, <1>1 DEF SliceInv, OrderOK
  <2>0. \A x : Edges(x)' = Edges(x)  BY <1>0 DEF Edges, FineOf, Units
  <2>2. ASSUME NEW i \in DOMAIN order', NEW d \in Edges(order'[i]) \cap reachable, d # order'[i]
        PROVE  \E j \in 1 .. i - 1 : order'[j] = d
    <3>2. CASE i \in 1 .. Len(order)
      <4>1. PICK j \in 1 .. i - 1 : order[j] = d
        BY <3>2, <2>2, <1>0, <1>1 DEF SliceInv, OrderOK
      <4>2. j \in 1 .. Len(order)  BY <4>1, <3>2, <1>1
      <4> QED  BY <4>1, <4>2, <1>1
    <3>3. CASE i = Len(order) + 1
      <4>1. d \in Placed  BY <3>3, <2>2, <1>0, <1>1
      <4>2. PICK j \in 1 .. Len(order) : order[j] = d  BY <4>1, <1>1 DEF Placed
      <4> QED  BY <4>2, <3>3, <1>1
    <3> QED  BY <3>2, <3>3, <1>1
  <2>3. Placed' \subseteq reachable'  BY <1>0, <1>3 DEF SliceInv, OrderOK
  <2> QED  BY <1>0, <1>1, <2>0, <2>1, <2>2, <2>3 DEF OrderOK
<1>5. RouteOK'
  <2>1. at = 1 /\ nodes = <<>> /\ DOMAIN leaves = {order[i] : i \in 1 .. at - 1}
    BY <1>0 DEF SliceInv, RouteOK
  <2>2. DOMAIN leaves = {}  BY <2>1
  <2>3. DOMAIN leaves' = {order'[i] : i \in 1 .. at' - 1}  BY <1>0, <2>1, <2>2
  <2>4. stage' \in {"sort", "check"} /\ (stage' = "check" => Placed' = reachable')
    BY <1>0, <1>3 DEF SliceInv, OrderOK
  <2>5. reachable' # {}  BY <1>0
  <2> QED  BY <1>0, <2>1, <2>3, <2>4, <2>5 DEF RouteOK
<1> QED  BY <1>2, <1>4, <1>5 DEF SliceInv

(* Before anything is resolved there is no slice.                            *)
LEMMA SliceInit == Init => SliceInv
<1> SUFFICES ASSUME Init PROVE SliceInv
  OBVIOUS
<1>1. order = <<>> /\ order \in Seq(Name) /\ DOMAIN order = {}
  BY EmptySeq DEF Init
<1>2. Placed = {}  BY <1>1 DEF Placed
<1>3. DOMAIN leaves = {}  BY EmptyHasNone DEF Init
<1> QED  BY <1>1, <1>2, <1>3 DEF Init, SliceInv, SliceOK, OrderOK, RouteOK

(* Inside the walk the route is where it was, or one recipe further on.      *)
LEMMA SameRoute ==
  ASSUME SliceInv, UNCHANGED source, at' = at, leaves' = leaves,
         stage \in {"enter", "walk"}, stage' \in {"enter", "walk", "after", "unscheduled"}
  PROVE  SliceInv'
<1>0. ws' = ws /\ reachable' = reachable /\ order' = order  BY DEF source
<1>1. SliceOK'  BY <1>0, SameSlice DEF SliceInv
<1>2. OrderOK' /\ Placed' = Placed /\ Dangling' = Dangling  BY SameOrder DEF SliceInv
<1>3. RouteOK'  BY <1>0, <1>2 DEF SliceInv, RouteOK
<1> QED  BY <1>1, <1>2, <1>3 DEF SliceInv

(* The slice and its order stand for the whole walk.                         *)
LEMMA SliceStep == PlanInv /\ SliceInv /\ [Next]_vars => SliceInv'
<1> SUFFICES ASSUME PlanInv, SliceInv, [Next]_vars PROVE SliceInv'
  OBVIOUS
<1>1. CASE UNCHANGED vars
  <2>0. UNCHANGED <<ws, reachable, order, at, leaves, nodes, stage>> /\ UNCHANGED source
    BY <1>1 DEF vars, source, graph
  <2>1. SliceOK'  BY <2>0, SameSlice DEF SliceInv
  <2>2. OrderOK' /\ Placed' = Placed /\ Dangling' = Dangling  BY <2>0, SameOrder DEF SliceInv
  <2>3. RouteOK'  BY <2>0, <2>2 DEF SliceInv, RouteOK
  <2> QED  BY <2>1, <2>2, <2>3 DEF SliceInv
<1>2. CASE Resolve  BY <1>2, ResolveSlice
<1>3. CASE CheckEdges
  <2>0. /\ UNCHANGED <<ws, reachable, order, at, leaves, nodes>> /\ UNCHANGED source
        /\ stage = "check" /\ stage' = IF Dangling THEN "dangling" ELSE "enter"
    BY <1>3 DEF CheckEdges, source, graph
  <2>1. SliceOK'  BY <2>0, SameSlice DEF SliceInv
  <2>2. OrderOK' /\ Placed' = Placed /\ Dangling' = Dangling  BY <2>0, SameOrder DEF SliceInv
  <2>3. RouteOK'
    <3>1. at = 1 /\ Placed = reachable /\ reachable # {}
      BY <2>0 DEF SliceInv, RouteOK
    <3>2. order \in Seq(Name) /\ DOMAIN order # {}  BY <3>1 DEF SliceInv, OrderOK, Placed
    <3>3. DOMAIN order = 1 .. Len(order) /\ Len(order) \in Nat
      BY <3>2, LenProperties
    <3>4. at \in DOMAIN order  BY <3>1, <3>2, <3>3
    <3> QED  BY <2>0, <2>2, <3>1, <3>4 DEF SliceInv, RouteOK
  <2> QED  BY <2>1, <2>2, <2>3 DEF SliceInv
<1>4. ASSUME NEW r \in Name, Sort(r) PROVE SliceInv'  BY <1>4, SortSlice
<1>5. ASSUME NEW r \in Name, EnterRecipe(r) PROVE SliceInv'
  BY <1>5, SameRoute DEF EnterRecipe
<1>6. ASSUME NEW r \in Name, NEW k \in Key, SynthProbe(r, k) PROVE SliceInv'
  BY <1>6, SameRoute DEF SynthProbe
<1>7. ASSUME NEW r \in Name, NEW i \in DOMAIN Units(r), BodyProbe(r, i) PROVE SliceInv'
  BY <1>7, SameRoute DEF BodyProbe
<1>8. ASSUME NEW r \in Name, NEW i \in DOMAIN Units(r), Unit(r, i) PROVE SliceInv'
  BY <1>8, SameRoute DEF Unit
<1>9. ASSUME NEW r \in Name, LeaveRecipe(r) PROVE SliceInv'
  <2>0. /\ UNCHANGED <<ws, reachable, order, nodes>> /\ UNCHANGED source
        /\ stage = "walk" /\ r = order[at] /\ at' = at + 1
        /\ leaves' = With(leaves, r, LeavesOf(r))
        /\ stage' = IF at = Len(order) THEN "done" ELSE "enter"
    BY <1>9 DEF LeaveRecipe, source, graph
  <2>1. SliceOK'  BY <2>0, SameSlice DEF SliceInv
  <2>2. OrderOK' /\ Placed' = Placed /\ Dangling' = Dangling  BY <2>0, SameOrder DEF SliceInv
  <2>3. RouteOK'
    <3>1. /\ at \in DOMAIN order /\ at \in Nat \ {0} /\ Placed = reachable /\ ~Dangling
          /\ DOMAIN leaves = {order[i] : i \in 1 .. at - 1}
      BY <2>0 DEF SliceInv, RouteOK
    <3>2. DOMAIN order = 1 .. Len(order) /\ Len(order) \in Nat
      BY LenProperties DEF SliceInv, OrderOK
    <3>3. DOMAIN leaves' = DOMAIN leaves \cup {r}  BY <2>0 DEF With
    <3>4. DOMAIN leaves' = {order'[i] : i \in 1 .. at' - 1}
      <4>1. 1 .. at' - 1 = 1 .. (at - 1) \cup {at}  BY <2>0, <3>1
      <4> QED  BY <4>1, <3>1, <3>3, <2>0
    <3> QED  BY <2>0, <2>2, <3>1, <3>2, <3>4 DEF RouteOK
  <2> QED  BY <2>1, <2>2, <2>3 DEF SliceInv
<1> QED  BY <1>1, <1>2, <1>3, <1>4, <1>5, <1>6, <1>7, <1>8, <1>9 DEF Next, Wire
----------------------------------------------------------------------------
(* Probes: which node serves which recipe, and that every demand of a        *)
(* recipe that was walked is served.                                         *)
Current(r) == stage \in {"walk", "unscheduled"} /\ r = order[at]
Known(r) == Declared(r) \cup BodyKeys(r)
Outside(r) == (Consumed(r) \ BodyKeys(r)) \cap Declared(r)
Inside(r) == {i \in DOMAIN Units(r) \ NonProbes(r) : Units(r)[i].probe \in Consumed(r)}

Attributed == \A n \in DOMAIN nodes : nodes[n].recipe \in DOMAIN leaves \/ Current(nodes[n].recipe)

NodesMinted ==
  \A n \in DOMAIN nodes :
    LET r == nodes[n].recipe
        k == nodes[n].key
    IN k # NoKey =>
         /\ nodes[n].unit \notin NonProbes(r)
         /\ Id(r, k) \in DOMAIN minted /\ minted[Id(r, k)] = n
         /\ k \in Consumed(r) \cap Known(r)

MintedOK ==
  \A x \in DOMAIN minted :
    \E f \in File, k \in Key :
      /\ x = <<f, k>> /\ nodes[minted[x]].key = k
      /\ ws.recipe[nodes[minted[x]].recipe].file = f

DemandsServed ==
  \A r \in DOMAIN leaves : \A k \in Consumed(r) \cap Known(r) : Id(r, k) \in DOMAIN minted

ProbeWalk(r) ==
  /\ keys \subseteq Outside(r) /\ probes \subseteq Inside(r)
  /\ \A k \in DOMAIN probeNode :
       k \in Key /\ Id(r, k) \in DOMAIN minted /\ probeNode[k] = minted[Id(r, k)]
  /\ Outside(r) \ keys \subseteq DOMAIN probeNode
  /\ \A i \in Inside(r) \ probes : Units(r)[i].probe \in DOMAIN probeNode

ProbeInv ==
  /\ Attributed /\ NodesMinted /\ MintedOK /\ DemandsServed /\ ProbesWired
  /\ stage = "walk" => ProbeWalk(order[at])

(* What depends on the workspace alone. *)
LEMMA SameWs ==
  ASSUME ws' = ws
  PROVE  /\ \A r : /\ Units(r)' = Units(r) /\ NonProbes(r)' = NonProbes(r)
                   /\ BodyKeys(r)' = BodyKeys(r) /\ Declared(r)' = Declared(r)
                   /\ Consumed(r)' = Consumed(r) /\ Known(r)' = Known(r)
                   /\ Outside(r)' = Outside(r) /\ Inside(r)' = Inside(r)
                   /\ Edges(r)' = Edges(r)
         /\ \A r, k : Upstream(r, k)' = Upstream(r, k) /\ Id(r, k)' = Id(r, k)
<1>1. \A r : /\ Units(r)' = Units(r) /\ NonProbes(r)' = NonProbes(r)
             /\ BodyKeys(r)' = BodyKeys(r) /\ Declared(r)' = Declared(r)
  BY DEF Units, NonProbes, BodyKeys, Declared
<1>2. \A r, k : Upstream(r, k)' = Upstream(r, k) /\ Id(r, k)' = Id(r, k)
  BY DEF Upstream, Id
<1>3. \A r : Consumed(r)' = Consumed(r)
  BY DEF Consumed, Declared, Upstream, NonProbes, Units
<1>4. \A r : Edges(r)' = Edges(r)  BY DEF Edges, FineOf, Units
<1> QED  BY <1>1, <1>2, <1>3, <1>4 DEF Known, Outside, Inside

(* What a recipe of a workspace is.                                          *)
LEMMA RecipeTypes ==
  ASSUME ws \in Workspaces, NEW r \in Name
  PROVE  /\ ws.recipe[r].file \in File /\ Declared(r) \subseteq Key
         /\ \A k \in Key : Upstream(r, k) \subseteq Key
         /\ \A i \in DOMAIN Units(r) : Units(r)[i].needs \subseteq Key
         /\ \A i \in DOMAIN Units(r) : Units(r)[i].probe \in Key \cup {NoKey}
<1>1. ws \in WorkspaceRecord  BY WorkspacesAssumption
<1>2. ws.recipe[r] \in RecipeRecord  BY <1>1 DEF WorkspaceRecord
<1>3. ws.recipe[r].file \in File  BY <1>2 DEF RecipeRecord
<1>4. \A i \in DOMAIN Units(r) : Units(r)[i] \in UnitRecord  BY UnitTypes
<1>5. Declared(r) \subseteq Key
  <2>1. ws.declared[ws.recipe[r].file] \in SUBSET Key  BY <1>1, <1>3 DEF WorkspaceRecord
  <2> QED  BY <2>1 DEF Declared
<1>6. \A k \in Key : Upstream(r, k) \subseteq Key
  <2>1. ws.upstream[ws.recipe[r].file] \in [Key -> SUBSET Key]
    BY <1>1, <1>3 DEF WorkspaceRecord
  <2> QED  BY <2>1 DEF Upstream
<1> QED  BY <1>3, <1>4, <1>5, <1>6 DEF UnitRecord

(* What a recipe consumes is closed under the requires of declared probes.   *)
LEMMA ConsumedFacts ==
  ASSUME ws \in Workspaces, NEW r \in Name
  PROVE  /\ Consumed(r) \subseteq Key
         /\ \A i \in NonProbes(r) : Units(r)[i].needs \subseteq Consumed(r)
         /\ \A k \in Consumed(r) \cap Declared(r) : Upstream(r, k) \subseteq Consumed(r)
<1> DEFINE step == [k \in Key |-> IF k \in Declared(r) THEN Upstream(r, k) ELSE {}]
           S == UNION {Units(r)[i].needs : i \in NonProbes(r)}
<1>1. /\ DOMAIN step = Key
      /\ \A k \in Key : step[k] = IF k \in Declared(r) THEN Upstream(r, k) ELSE {}
  OBVIOUS
<1>2. S \subseteq DOMAIN step  BY <1>1, RecipeTypes DEF NonProbes
<1>3. \A k \in DOMAIN step : step[k] \subseteq DOMAIN step  BY <1>1, RecipeTypes
<1>4. Consumed(r) = ReachFrom(step, S)  BY DEF Consumed
<1>6. IsFiniteSet(DOMAIN step)  BY <1>1, FiniteAssumption
<1>7. \A i \in NonProbes(r) : Units(r)[i].needs \subseteq S  OBVIOUS
<1> HIDE DEF step, S
<1>5. S \subseteq ReachFrom(step, S)  BY <1>6, ReachHas
<1>8. /\ ReachFrom(step, S) \subseteq DOMAIN step
      /\ \A k \in ReachFrom(step, S) : step[k] \subseteq ReachFrom(step, S)
  BY <1>2, <1>3, <1>6, ReachClosed
<1> QED  BY <1>1, <1>4, <1>5, <1>7, <1>8

(* A new node whose reads are among its dependencies keeps readers wired.    *)
Provides(m, r, j) == nodes[m].key = j /\ ws.recipe[nodes[m].recipe].file = ws.recipe[r].file

(* A node added with a wired probe among its dependencies waits for it.      *)
LEMMA NewNodeWired ==
  ASSUME PlanInv, ProbesWired, ws' = ws, NEW r \in Name, NEW i \in Nat,
         NEW k \in Key \cup {NoKey}, NEW deps, deps \subseteq Ids,
         nodes' = Append(nodes, Node(r, i, k, deps)),
         \A j \in IF k = NoKey THEN Units(r)[i].needs ELSE Upstream(r, k) :
           \/ \E m \in deps : Provides(m, r, j)
           \/ i = 0 /\ (j \in BodyKeys(r) \/ j \notin Declared(r))
  PROVE  ProbesWired'
<1> DEFINE e == Node(r, i, k, deps)
<1>0. PICK id \in {Len(nodes) + 1} : TRUE  OBVIOUS
<1>1. nodes \in Seq(NodeRecord) /\ Len(nodes) \in Nat  BY LenProperties DEF PlanInv, GraphOK
<1>2. e \in NodeRecord  BY <1>1 DEF Node, NodeRecord, Ids
<1>3. /\ DOMAIN nodes = Ids /\ DOMAIN nodes' = Ids \cup {id}
      /\ \A m \in Ids : nodes'[m] = nodes[m]
      /\ nodes'[id] = e
  BY <1>0, <1>1, <1>2, AppendProperties, LenProperties DEF Ids
<1>4. e.recipe = r /\ e.unit = i /\ e.key = k /\ e.deps = deps  BY DEF Node
<1>5. \A m \in Ids : nodes[m].deps \subseteq Ids
  BY <1>1, <1>3 DEF PlanInv, GraphOK, PointsBack, Ids
<1> HIDE DEF e
<1>6. ASSUME NEW n \in Ids PROVE Reads(n)' = Reads(n) /\ \A j : WaitsFor(n, j) => WaitsFor(n, j)'
  <2>1. Reads(n)' = Reads(n)  BY <1>3, <1>6, SameWs DEF Reads
  <2>2. ASSUME NEW j, WaitsFor(n, j) PROVE WaitsFor(n, j)'
    <3>1. PICK m \in nodes[n].deps :
             nodes[m].key = j /\ ws.recipe[nodes[m].recipe].file = ws.recipe[nodes[n].recipe].file
      BY <2>2 DEF WaitsFor
    <3>2. m \in Ids  BY <1>5, <3>1
    <3> QED  BY <3>1, <3>2, <1>3 DEF WaitsFor
  <2> QED  BY <2>1, <2>2
<1>7. ASSUME NEW n \in Ids, NEW j \in Reads(n)'
      PROVE  \/ WaitsFor(n, j)'
             \/ /\ nodes'[n].unit = 0
                /\ LET s == nodes'[n].recipe IN j \in BodyKeys(s) \/ j \notin Declared(s)
  BY <1>3, <1>6, <1>7 DEF ProbesWired
<1>8. ASSUME NEW j \in Reads(id)'
      PROVE  \/ WaitsFor(id, j)'
             \/ i = 0 /\ (j \in BodyKeys(r) \/ j \notin Declared(r))
  <2>1. j \in IF k = NoKey THEN Units(r)[i].needs ELSE Upstream(r, k)
    BY <1>3, <1>4, <1>8, SameWs DEF Reads
  <2>2. CASE \E m \in deps : Provides(m, r, j)
    BY <2>2, <1>3, <1>4 DEF Provides, WaitsFor
  <2> QED  BY <2>1, <2>2
<1>9. ASSUME NEW n \in Ids \cup {id}, NEW j \in Reads(n)'
      PROVE  \/ WaitsFor(n, j)'
             \/ /\ nodes'[n].unit = 0
                /\ LET s == nodes'[n].recipe IN j \in BodyKeys(s) \/ j \notin Declared(s)
  BY <1>3, <1>4, <1>7, <1>8, <1>9
<1> QED  BY <1>3, <1>9, SameWs DEF ProbesWired
----------------------------------------------------------------------------
(* What an appended node changes. *)
LEMMA Appended ==
  ASSUME PlanInv, NEW r \in Name, NEW i \in Nat, NEW k \in Key \cup {NoKey},
         NEW deps, deps \subseteq Ids, nodes' = Append(nodes, Node(r, i, k, deps))
  PROVE  /\ Len(nodes) \in Nat /\ Len(nodes') = Len(nodes) + 1
         /\ DOMAIN nodes = Ids /\ DOMAIN nodes' = Ids \cup {Len(nodes) + 1}
         /\ Len(nodes) + 1 \notin Ids /\ \A n \in Ids : n < Len(nodes) + 1
         /\ \A n \in Ids : nodes'[n] = nodes[n]
         /\ nodes'[Len(nodes) + 1] = Node(r, i, k, deps)
<1>1. nodes \in Seq(NodeRecord) /\ Len(nodes) \in Nat  BY LenProperties DEF PlanInv, GraphOK
<1>2. Node(r, i, k, deps) \in NodeRecord  BY <1>1 DEF Node, NodeRecord, Ids
<1> QED  BY <1>1, <1>2, AppendProperties, LenProperties DEF Ids

(* The parts of the invariant that no walking state has a part in. *)
Served == Attributed /\ NodesMinted /\ MintedOK /\ DemandsServed

Own(r) ==
  \A k \in DOMAIN probeNode :
    k \in Key /\ Id(r, k) \in DOMAIN minted /\ probeNode[k] = minted[Id(r, k)]

(* Two recipes of one Cookfile share the node of a key. *)
LEMMA OwnProvides ==
  ASSUME PlanInv, MintedOK, NEW r, Own(r), NEW k \in DOMAIN probeNode
  PROVE  Provides(probeNode[k], r, k) /\ probeNode[k] \in Ids
<1>1. Id(r, k) \in DOMAIN minted /\ probeNode[k] = minted[Id(r, k)]  BY DEF Own
<1>2. Id(r, k) = <<ws.recipe[r].file, k>>  BY DEF Id
<1>3. PICK f \in File, l \in Key :
        /\ Id(r, k) = <<f, l>> /\ nodes[minted[Id(r, k)]].key = l
        /\ ws.recipe[nodes[minted[Id(r, k)]].recipe].file = f
  BY <1>1 DEF MintedOK
<1>4. f = ws.recipe[r].file /\ l = k  BY <1>2, <1>3
<1> QED  BY <1>1, <1>3, <1>4 DEF Provides, PlanInv, RefsOK

(* Where no node is added, served demands stay served,                       *)
LEMMA SameServed ==
  ASSUME ws' = ws, nodes' = nodes, minted' = minted, leaves' = leaves, Served, Attributed'
  PROVE  Served'
<1>1. NodesMinted'  BY SameWs DEF Served, NodesMinted
<1>2. MintedOK'  BY SameWs DEF Served, MintedOK
<1>3. DemandsServed'  BY SameWs DEF Served, DemandsServed
<1> QED  BY <1>1, <1>2, <1>3 DEF Served

(* what is wired stays wired,                                                *)
LEMMA SameWired ==
  ASSUME ws' = ws, nodes' = nodes, ProbesWired
  PROVE  ProbesWired'
<1>1. \A n \in DOMAIN nodes : Reads(n)' = Reads(n)  BY SameWs DEF Reads
<1>2. \A n \in DOMAIN nodes : \A j : WaitsFor(n, j)' = WaitsFor(n, j)  BY DEF WaitsFor
<1> QED  BY <1>1, <1>2, SameWs DEF ProbesWired

(* While a recipe is walked and none is left, attribution is kept. *)
LEMMA SameAttributed ==
  ASSUME Attributed, UNCHANGED <<nodes, leaves, order, at>>,
         stage \in {"walk", "unscheduled"} => stage' \in {"walk", "unscheduled"}
  PROVE  Attributed'
  BY DEF Attributed, Current

(* A probe minted before is reused: nothing else changes.                    *)
LEMMA ReuseServed ==
  ASSUME PlanInv, NEW r, NEW k \in Key, ws' = ws, Own(r), ReuseProbe(r, k)
  PROVE  Own(r)' /\ DOMAIN probeNode' = DOMAIN probeNode \cup {k}
<1>1. /\ minted' = minted /\ Id(r, k) \in DOMAIN minted
      /\ probeNode' = With(probeNode, k, minted[Id(r, k)])
  BY DEF ReuseProbe, graph
<1>2. /\ DOMAIN probeNode' = DOMAIN probeNode \cup {k}
      /\ \A l \in DOMAIN probeNode' :
           probeNode'[l] = IF l = k THEN minted[Id(r, k)] ELSE probeNode[l]
  BY <1>1 DEF With
<1> QED  BY <1>1, <1>2, SameWs DEF Own

(* A probe minted now has one node, and it is found.                         *)
LEMMA MintServed ==
  ASSUME PlanInv, NEW r \in Name, NEW i \in Nat, NEW k \in Key, NEW deps, deps \subseteq Ids,
         Served, Own(r), UNCHANGED <<ws, leaves, order, at>>,
         MintProbe(r, i, k, deps), stage' = "walk", r = order[at],
         i \notin NonProbes(r), k \in Consumed(r) \cap Known(r)
  PROVE  Served' /\ Own(r)' /\ DOMAIN probeNode' = DOMAIN probeNode \cup {k}
<1>0. PICK id \in {Len(nodes) + 1} : TRUE  OBVIOUS
<1>1. /\ nodes' = Append(nodes, Node(r, i, k, deps))
      /\ minted' = With(minted, Id(r, k), Len(nodes'))
      /\ probeNode' = With(probeNode, k, Len(nodes'))
      /\ Id(r, k) \notin DOMAIN minted
  BY DEF MintProbe
<1>2. /\ DOMAIN nodes = Ids /\ DOMAIN nodes' = Ids \cup {id} /\ Len(nodes') = id
      /\ id \notin Ids
      /\ \A n \in Ids : nodes'[n] = nodes[n]
      /\ nodes'[id] = Node(r, i, k, deps)
  BY <1>0, <1>1, Appended
<1>3. /\ DOMAIN minted' = DOMAIN minted \cup {Id(r, k)} /\ minted'[Id(r, k)] = id
      /\ \A x \in DOMAIN minted : minted'[x] = minted[x]
  BY <1>1, <1>2 DEF With
<1>4. /\ DOMAIN probeNode' = DOMAIN probeNode \cup {k} /\ probeNode'[k] = id
      /\ \A l \in DOMAIN probeNode \ {k} : probeNode'[l] = probeNode[l]
  BY <1>1, <1>2 DEF With
<1>5. /\ nodes'[id].recipe = r /\ nodes'[id].unit = i /\ nodes'[id].key = k
      /\ nodes'[id].deps = deps
  BY <1>2 DEF Node
<1>6. \A x \in DOMAIN minted : minted[x] \in Ids  BY DEF PlanInv, RefsOK
<1>7. Attributed'
  <2>1. \A n \in Ids : nodes[n].recipe \in DOMAIN leaves \/ nodes[n].recipe = r
    BY <1>2 DEF Served, Attributed, Current
  <2> QED  BY <1>2, <1>5, <2>1 DEF Attributed, Current
<1>8. NodesMinted'
  <2>1. ASSUME NEW n \in Ids, nodes[n].key # NoKey
        PROVE  LET s == nodes[n].recipe
                   l == nodes[n].key
               IN /\ nodes[n].unit \notin NonProbes(s)
                  /\ Id(s, l) \in DOMAIN minted' /\ minted'[Id(s, l)] = n
                  /\ l \in Consumed(s) \cap Known(s)
    BY <1>2, <1>3, <2>1 DEF Served, NodesMinted
  <2> QED  BY <2>1, <1>2, <1>3, <1>5, SameWs DEF NodesMinted
<1>9. MintedOK'
  <2>1. ASSUME NEW x \in DOMAIN minted
        PROVE  \E f \in File, l \in Key :
                 /\ x = <<f, l>> /\ nodes'[minted'[x]].key = l
                 /\ ws.recipe[nodes'[minted'[x]].recipe].file = f
    BY <1>2, <1>3, <1>6 DEF Served, MintedOK
  <2>2. Id(r, k) = <<ws.recipe[r].file, k>> /\ ws.recipe[r].file \in File
    BY RecipeTypes DEF Id, PlanInv
  <2> QED  BY <2>1, <2>2, <1>3, <1>5 DEF MintedOK
<1>10. DemandsServed'  BY <1>3, SameWs DEF Served, DemandsServed
<1>11. Own(r)'
  <2>1. \A l \in DOMAIN probeNode : l # k
    BY <1>1 DEF Own
  <2>2. ASSUME NEW l \in DOMAIN probeNode'
        PROVE  l \in Key /\ Id(r, l) \in DOMAIN minted' /\ probeNode'[l] = minted'[Id(r, l)]
    <3>1. CASE l = k  BY <3>1, <1>3, <1>4
    <3>2. CASE l # k  BY <3>2, <1>3, <1>4 DEF Own
    <3> QED  BY <3>1, <3>2
  <2> QED  BY <2>2, SameWs DEF Own
<1> QED  BY <1>4, <1>7, <1>8, <1>9, <1>10, <1>11 DEF Served

(* ProbeWalk, split into what a step leaves alone and what it advances.      *)
LEMMA WalkAsOwn ==
  ASSUME NEW r
  PROVE  ProbeWalk(r) <=>
           /\ Own(r) /\ keys \subseteq Outside(r) /\ probes \subseteq Inside(r)
           /\ Outside(r) \ keys \subseteq DOMAIN probeNode
           /\ \A i \in Inside(r) \ probes : Units(r)[i].probe \in DOMAIN probeNode
  BY DEF ProbeWalk, Own

(* The recipe being walked is one of the slice.                              *)
LEMMA WalkedName ==
  ASSUME PlanInv, SliceInv, stage \in {"enter", "walk"}
  PROVE  order[at] \in Name /\ order[at] \in reachable
         /\ order[at] \notin DOMAIN leaves
<1>1. /\ at \in DOMAIN order /\ order \in Seq(Name) /\ at \in Nat \ {0}
      /\ DOMAIN leaves = {order[i] : i \in 1 .. at - 1}
  BY DEF SliceInv, OrderOK, RouteOK
<1>2. order[at] \in Name /\ DOMAIN order = 1 .. Len(order) /\ Len(order) \in Nat
  BY <1>1, ElementOfSeq, LenProperties
<1>3. order[at] \notin DOMAIN leaves
  <2> SUFFICES ASSUME NEW i \in 1 .. at - 1 PROVE order[i] # order[at]
    BY <1>1
  <2>1. i \in DOMAIN order /\ i # at  BY <1>1, <1>2
  <2> QED  BY <2>1, <1>1 DEF SliceInv, OrderOK
<1> QED  BY <1>1, <1>2, <1>3 DEF SliceInv, OrderOK, Placed
----------------------------------------------------------------------------
(* Before the walk no probe has a node.                                      *)
LEMMA ProbeInit == Init => ProbeInv
<1> SUFFICES ASSUME Init PROVE ProbeInv
  OBVIOUS
<1>1. DOMAIN nodes = {} /\ DOMAIN minted = {} /\ DOMAIN leaves = {} /\ stage # "walk"
  BY EmptyHasNone DEF Init
<1> QED  BY <1>1 DEF ProbeInv, Attributed, NodesMinted, MintedOK, DemandsServed, ProbesWired

(* Entering a recipe.                                                        *)
LEMMA EnterProbe ==
  ASSUME PlanInv, SliceInv, ProbeInv, NEW r \in Name, EnterRecipe(r) PROVE ProbeInv'
<1>0. /\ UNCHANGED <<ws, order, at, nodes, minted, leaves>> /\ stage = "enter" /\ r = order[at]
  BY DEF EnterRecipe, source, graph
<1>1. Attributed'
  <2>1. \A n \in DOMAIN nodes : nodes[n].recipe \in DOMAIN leaves
    BY <1>0 DEF ProbeInv, Attributed, Current
  <2> QED  BY <2>1, <1>0 DEF Attributed
<1>2. Served' /\ ProbesWired'
  BY <1>0, <1>1, SameServed, SameWired DEF ProbeInv, Served
<1>3. CASE stage' # "walk"  BY <1>2, <1>3 DEF Served, ProbeInv
<1>4. CASE /\ keys' = (Consumed(r) \ BodyKeys(r)) \cap Declared(r)
           /\ probes' = {i \in DOMAIN Units(r) \ NonProbes(r) :
                           Units(r)[i].probe \in Consumed(r)}
           /\ probeNode' = Empty
  <2>1. ProbeWalk(r)'
    <3>1. keys' = Outside(r) /\ probes' = Inside(r) /\ DOMAIN probeNode' = {}
      BY <1>4, EmptyHasNone DEF Outside, Inside
    <3> QED  BY <3>1, <1>0, SameWs DEF ProbeWalk
  <2> QED  BY <2>1, <1>0, <1>2 DEF Served, ProbeInv
<1> QED  BY <1>3, <1>4 DEF EnterRecipe

(* A demanded top-level probe, minted or reused.                             *)
LEMMA SynthStep ==
  ASSUME PlanInv, SliceInv, ProbeInv, NEW r \in Name, NEW k \in Key, SynthProbe(r, k)
  PROVE  ProbeInv'
<1> DEFINE deps == CrossDeps(r) \cup Wired(Upstream(r, k))
<1>0. /\ UNCHANGED <<ws, order, at, leaves, probes>> /\ stage = "walk" /\ stage' = "walk"
      /\ r = order[at] /\ k \in keys /\ Upstream(r, k) \cap keys = {} /\ keys' = keys \ {k}
  BY DEF SynthProbe, source
<1>1. ProbeWalk(r) /\ Served /\ ProbesWired  BY <1>0 DEF ProbeInv, Served
<1>2. /\ Own(r) /\ keys \subseteq Outside(r) /\ probes \subseteq Inside(r)
      /\ Outside(r) \ keys \subseteq DOMAIN probeNode
      /\ \A i \in Inside(r) \ probes : Units(r)[i].probe \in DOMAIN probeNode
  BY <1>1, WalkAsOwn
<1>3. k \in Consumed(r) \cap Known(r) /\ k \in Declared(r)  BY <1>0, <1>2 DEF Outside, Known
<1>4. ASSUME Own(r)', DOMAIN probeNode' = DOMAIN probeNode \cup {k}
      PROVE  ProbeWalk(order[at])'
  <2>1. /\ keys' \subseteq Outside(r) /\ probes' \subseteq Inside(r)
        /\ Outside(r) \ keys' \subseteq DOMAIN probeNode'
        /\ \A i \in Inside(r) \ probes' : Units(r)[i].probe \in DOMAIN probeNode'
    BY <1>0, <1>2, <1>4
  <2>2. ProbeWalk(r)'  BY <2>1, <1>0, <1>4, SameWs DEF ProbeWalk, Own
  <2> QED  BY <2>2, <1>0
<1>5. CASE ReuseProbe(r, k)
  <2>1. nodes' = nodes /\ minted' = minted  BY <1>5 DEF ReuseProbe, graph
  <2>2. Attributed'  BY <1>0, <1>1, <2>1, SameAttributed DEF Served
  <2>3. Served' /\ ProbesWired'  BY <1>0, <1>1, <2>1, <2>2, SameServed, SameWired
  <2>4. Own(r)' /\ DOMAIN probeNode' = DOMAIN probeNode \cup {k}
    BY <1>0, <1>2, <1>5, ReuseServed
  <2> QED  BY <2>3, <2>4, <1>4 DEF ProbeInv, Served
<1>6. CASE MintProbe(r, 0, k, deps)
  <2>1. deps \subseteq Ids  BY CrossHasIds, WiredHasIds DEF PlanInv
  <2>2. 0 \notin NonProbes(r)
    <3>1. DOMAIN Units(r) = 1 .. Len(Units(r))  BY UnitTypes DEF PlanInv
    <3> QED  BY <3>1 DEF NonProbes
  <2>3. Served' /\ Own(r)' /\ DOMAIN probeNode' = DOMAIN probeNode \cup {k}
    BY <1>0, <1>1, <1>2, <1>3, <1>6, <2>1, <2>2, MintServed
  <2>4. ProbesWired'
    <3>1. ASSUME NEW j \in Upstream(r, k)
          PROVE  \/ \E m \in deps : Provides(m, r, j)
                 \/ j \in BodyKeys(r) \/ j \notin Declared(r)
      <4>1. CASE j \in DOMAIN probeNode
        <5>1. Provides(probeNode[j], r, j)  BY <4>1, <1>1, <1>2, OwnProvides DEF Served
        <5>2. probeNode[j] \in deps  BY <4>1, <3>1 DEF Wired
        <5> QED  BY <5>1, <5>2
      <4>2. CASE j \notin DOMAIN probeNode
        <5>1. j \in Consumed(r)  BY <3>1, <1>3, ConsumedFacts DEF PlanInv
        <5> QED  BY <5>1, <4>2, <1>0, <1>2 DEF Outside
      <4> QED  BY <4>1, <4>2
    <3>2. nodes' = Append(nodes, Node(r, 0, k, deps))  BY <1>6 DEF MintProbe
    <3>3. k # NoKey  BY NoKeyAssumption
    <3> HIDE DEF deps
    <3> QED  BY <3>1, <3>2, <3>3, <2>1, <1>0, <1>1, NewNodeWired
  <2> QED  BY <2>3, <2>4, <1>4 DEF ProbeInv, Served
<1> QED  BY <1>5, <1>6 DEF SynthProbe

(* A probe of the recipe itself.                                             *)
LEMMA BodyStep ==
  ASSUME PlanInv, SliceInv, ProbeInv, NEW r \in Name, NEW i \in DOMAIN Units(r), BodyProbe(r, i)
  PROVE  ProbeInv'
<1> DEFINE k == Units(r)[i].probe
           deps == CrossDeps(r) \cup FineDeps(r, i) \cup Wired(Needs(r, i))
<1>0. /\ UNCHANGED <<ws, order, at, leaves, keys>> /\ stage = "walk"
      /\ r = order[at] /\ i \in probes /\ probes' = probes \ {i}
  BY DEF BodyProbe, source
<1>1. ProbeWalk(r) /\ Served /\ ProbesWired  BY <1>0 DEF ProbeInv, Served
<1>2. /\ Own(r) /\ keys \subseteq Outside(r) /\ probes \subseteq Inside(r)
      /\ Outside(r) \ keys \subseteq DOMAIN probeNode
      /\ \A j \in Inside(r) \ probes : Units(r)[j].probe \in DOMAIN probeNode
  BY <1>1, WalkAsOwn
<1>3. i \notin NonProbes(r) /\ k \in Consumed(r) \cap Known(r) /\ k \in Key
  <2>1. i \in Inside(r)  BY <1>0, <1>2
  <2>2. i \notin NonProbes(r) /\ k \in Consumed(r) /\ k \in BodyKeys(r)
    BY <2>1 DEF Inside, BodyKeys
  <2> QED  BY <2>2, ConsumedFacts DEF Known, PlanInv
<1>n. i \in Nat  BY UnitTypes DEF PlanInv
<1>4. ASSUME Own(r)', DOMAIN probeNode' = DOMAIN probeNode \cup {k}
      PROVE  ProbeWalk(order[at])'
  <2>1. /\ keys' \subseteq Outside(r) /\ probes' \subseteq Inside(r)
        /\ Outside(r) \ keys' \subseteq DOMAIN probeNode'
        /\ \A j \in Inside(r) \ probes' : Units(r)[j].probe \in DOMAIN probeNode'
    BY <1>0, <1>2, <1>4
  <2>2. ProbeWalk(r)'  BY <2>1, <1>0, <1>4, SameWs DEF ProbeWalk, Own
  <2> QED  BY <2>2, <1>0
<1>5. CASE ReuseProbe(r, k) /\ UNCHANGED stage
  <2>1. nodes' = nodes /\ minted' = minted  BY <1>5 DEF ReuseProbe, graph
  <2>2. Attributed'  BY <1>0, <1>1, <1>5, <2>1, SameAttributed DEF Served
  <2>3. Served' /\ ProbesWired'  BY <1>0, <1>1, <2>1, <2>2, SameServed, SameWired
  <2>4. Own(r)' /\ DOMAIN probeNode' = DOMAIN probeNode \cup {k}
    BY <1>0, <1>2, <1>3, <1>5, ReuseServed
  <2> QED  BY <2>3, <2>4, <1>4 DEF ProbeInv, Served
<1>6. CASE MintProbe(r, i, k, deps) /\ UNCHANGED stage /\ Needs(r, i) \subseteq DOMAIN probeNode
  <2>1. deps \subseteq Ids  BY CrossHasIds, FineHasIds, WiredHasIds DEF PlanInv
  <2>3. Served' /\ Own(r)' /\ DOMAIN probeNode' = DOMAIN probeNode \cup {k}
    <3> HIDE DEF k, deps
    <3> QED  BY <1>0, <1>1, <1>2, <1>3, <1>n, <1>6, <2>1, MintServed
  <2>4. ProbesWired'
    <3>1. ASSUME NEW j \in Upstream(r, k) PROVE \E m \in deps : Provides(m, r, j)
      <4>1. j \in Needs(r, i)  BY <3>1, <1>3 DEF Needs
      <4>2. j \in DOMAIN probeNode  BY <4>1, <1>6
      <4>3. Provides(probeNode[j], r, j)  BY <4>2, <1>1, <1>2, OwnProvides DEF Served
      <4>4. probeNode[j] \in deps  BY <4>1, <4>2 DEF Wired
      <4> QED  BY <4>3, <4>4
    <3>2. nodes' = Append(nodes, Node(r, i, k, deps))  BY <1>6 DEF MintProbe
    <3>3. k # NoKey  BY <1>3, NoKeyAssumption
    <3> HIDE DEF deps, k
    <3> QED  BY <3>1, <3>2, <3>3, <2>1, <1>0, <1>1, <1>3, <1>n, NewNodeWired
  <2> QED  BY <2>3, <2>4, <1>4 DEF ProbeInv, Served
<1>7. CASE stage' = "unscheduled" /\ UNCHANGED <<graph, probeNode>>
  <2>1. nodes' = nodes /\ minted' = minted  BY <1>7 DEF graph
  <2>2. Attributed'  BY <1>0, <1>1, <1>7, <2>1, SameAttributed DEF Served
  <2>3. Served' /\ ProbesWired'  BY <1>0, <1>1, <2>1, <2>2, SameServed, SameWired
  <2> QED  BY <2>3, <1>7 DEF ProbeInv, Served
<1> QED  BY <1>5, <1>6, <1>7 DEF BodyProbe

(* A unit that is not a probe.                                               *)
LEMMA UnitProbe ==
  ASSUME PlanInv, SliceInv, ProbeInv, NEW r \in Name, NEW i \in DOMAIN Units(r), Unit(r, i)
  PROVE  ProbeInv'
<1> DEFINE before == IF barrier = {} THEN CrossDeps(r) ELSE barrier
           deps == before \cup FineDeps(r, i) \cup AfterDeps(r, i) \cup Wired(Needs(r, i))
<1>0. /\ UNCHANGED <<ws, order, at, leaves, keys, probes, minted, probeNode>> /\ stage = "walk"
      /\ r = order[at] /\ i \in todo /\ \A j \in todo : i <= j
  BY DEF Unit, source
<1>1. ProbeWalk(r) /\ Served /\ ProbesWired  BY <1>0 DEF ProbeInv, Served
<1>2. Own(r)  BY <1>1, WalkAsOwn
<1>3. WalkedUpTo(r) /\ i \in NonProbes(r)  BY <1>0 DEF PlanInv, WalkOK, WalkedUpTo
<1>n. i \in Nat  BY UnitTypes DEF PlanInv
<1>4. CASE /\ Needs(r, i) \subseteq DOMAIN probeNode /\ UNCHANGED stage
           /\ nodes' = Append(nodes, Node(r, i, NoKey, deps))
  <2>0. PICK id \in {Len(nodes) + 1} : TRUE  OBVIOUS
  <2>1. deps \subseteq Ids
    <3>1. before \subseteq Ids  BY CrossHasIds DEF RefsOK, PlanInv
    <3> QED  BY <3>1, <1>0, <1>3, FineHasIds, AfterHasIds, WiredHasIds DEF PlanInv
  <2>4. ProbesWired'
    <3>1. ASSUME NEW j \in Units(r)[i].needs PROVE \E m \in deps : Provides(m, r, j)
      <4>1. j \in Needs(r, i)  BY <3>1, <1>3 DEF Needs
      <4>2. j \in DOMAIN probeNode  BY <4>1, <1>4
      <4>3. Provides(probeNode[j], r, j)  BY <4>2, <1>1, <1>2, OwnProvides DEF Served
      <4>4. probeNode[j] \in deps  BY <4>1, <4>2 DEF Wired
      <4> QED  BY <4>3, <4>4
    <3> HIDE DEF deps
    <3> QED  BY <3>1, <2>1, <1>0, <1>1, <1>4, <1>n, NewNodeWired
  <2> HIDE DEF deps
  <2>2. /\ DOMAIN nodes = Ids /\ DOMAIN nodes' = Ids \cup {id}
        /\ id \notin Ids
        /\ \A n \in Ids : nodes'[n] = nodes[n]
        /\ nodes'[id] = Node(r, i, NoKey, deps)
    BY <2>0, <2>1, <1>4, <1>n, Appended
  <2>3. nodes'[id].recipe = r /\ nodes'[id].key = NoKey  BY <2>2 DEF Node
  <2>5. Attributed'
    <3>1. \A n \in Ids : nodes[n].recipe \in DOMAIN leaves \/ nodes[n].recipe = r
      BY <1>0, <1>1, <2>2 DEF Served, Attributed, Current
    <3> QED  BY <1>0, <1>4, <2>2, <2>3, <3>1 DEF Attributed, Current
  <2>6. NodesMinted'
    <3>1. ASSUME NEW n \in Ids, nodes[n].key # NoKey
          PROVE  LET s == nodes[n].recipe
                     l == nodes[n].key
                 IN /\ nodes[n].unit \notin NonProbes(s)
                    /\ Id(s, l) \in DOMAIN minted' /\ minted'[Id(s, l)] = n
                    /\ l \in Consumed(s) \cap Known(s)
      BY <1>0, <1>1, <2>2, <3>1 DEF Served, NodesMinted
    <3> QED  BY <3>1, <1>0, <2>2, <2>3, SameWs DEF NodesMinted
  <2>7. MintedOK'
    <3>1. \A x \in DOMAIN minted : minted[x] \in Ids  BY DEF PlanInv, RefsOK
    <3> QED  BY <3>1, <1>0, <1>1, <2>2 DEF Served, MintedOK
  <2>8. DemandsServed'  BY <1>0, <1>1, SameWs DEF Served, DemandsServed
  <2>9. ProbeWalk(order[at])'
    <3>1. ProbeWalk(r)'  BY <1>0, <1>1, SameWs DEF ProbeWalk
    <3> QED  BY <3>1, <1>0
  <2> QED  BY <2>4, <2>5, <2>6, <2>7, <2>8, <2>9 DEF ProbeInv
<1>5. CASE stage' = "unscheduled" /\ UNCHANGED nodes
  <2>2. Attributed'  BY <1>0, <1>1, <1>5, SameAttributed DEF Served
  <2>3. Served' /\ ProbesWired'  BY <1>0, <1>1, <1>5, <2>2, SameServed, SameWired
  <2> QED  BY <2>3, <1>5 DEF ProbeInv, Served
<1> QED  BY <1>4, <1>5 DEF Unit

(* Leaving a recipe: its demands are served.                                 *)
LEMMA LeaveProbe ==
  ASSUME PlanInv, SliceInv, ProbeInv, NEW r \in Name, LeaveRecipe(r) PROVE ProbeInv'
<1>0. /\ UNCHANGED <<ws, order, nodes, minted>> /\ stage = "walk" /\ r = order[at]
      /\ keys = {} /\ probes = {} /\ leaves' = With(leaves, r, LeavesOf(r))
      /\ stage' \in {"done", "enter"}
  BY DEF LeaveRecipe, source, graph
<1>1. ProbeWalk(r) /\ Served /\ ProbesWired  BY <1>0 DEF ProbeInv, Served
<1>2. /\ Own(r) /\ Outside(r) \subseteq DOMAIN probeNode
      /\ \A i \in Inside(r) : Units(r)[i].probe \in DOMAIN probeNode
  BY <1>0, <1>1, WalkAsOwn
<1>3. DOMAIN leaves' = DOMAIN leaves \cup {r}  BY <1>0 DEF With
<1>4. Attributed'
  <2>1. \A n \in DOMAIN nodes : nodes[n].recipe \in DOMAIN leaves \/ nodes[n].recipe = r
    BY <1>0, <1>1 DEF Served, Attributed, Current
  <2> QED  BY <2>1, <1>0, <1>3 DEF Attributed
<1>5. DemandsServed'
  <2>1. ASSUME NEW k \in Consumed(r) \cap Known(r) PROVE Id(r, k) \in DOMAIN minted
    <3>1. CASE k \in BodyKeys(r)
      <4>1. PICK i \in DOMAIN Units(r) \ NonProbes(r) : k = Units(r)[i].probe
        BY <3>1 DEF BodyKeys
      <4>2. i \in Inside(r)  BY <4>1, <2>1 DEF Inside
      <4> QED  BY <4>1, <4>2, <1>2 DEF Own
    <3>2. CASE k \notin BodyKeys(r)
      <4>1. k \in Outside(r)  BY <3>2, <2>1 DEF Outside, Known
      <4> QED  BY <4>1, <1>2 DEF Own
    <3> QED  BY <3>1, <3>2
  <2> QED  BY <2>1, <1>0, <1>1, <1>3, SameWs DEF Served, DemandsServed
<1>6. NodesMinted' /\ MintedOK' /\ ProbesWired'
  <2>1. NodesMinted'  BY <1>0, <1>1, SameWs DEF Served, NodesMinted
  <2>2. MintedOK'  BY <1>0, <1>1, SameWs DEF Served, MintedOK
  <2> QED  BY <2>1, <2>2, <1>0, <1>1, SameWired
<1> QED  BY <1>0, <1>4, <1>5, <1>6 DEF ProbeInv

(* Every step of planning keeps what is known of probes.                     *)
LEMMA ProbeStep == PlanInv /\ SliceInv /\ ProbeInv /\ [Next]_vars => ProbeInv'
<1> SUFFICES ASSUME PlanInv, SliceInv, ProbeInv, [Next]_vars PROVE ProbeInv'
  OBVIOUS
<1>1. CASE UNCHANGED vars
  <2>0. /\ UNCHANGED <<ws, order, at, nodes, minted, leaves, stage, keys, probes, probeNode>>
    BY <1>1 DEF vars, source, graph, walk
  <2>1. Attributed'  BY <2>0, SameAttributed DEF ProbeInv
  <2>2. Served' /\ ProbesWired'  BY <2>0, <2>1, SameServed, SameWired DEF ProbeInv, Served
  <2>3. stage' = "walk" => ProbeWalk(order[at])'
    <3>1. \A r : ProbeWalk(r)' = ProbeWalk(r)  BY <2>0, SameWs DEF ProbeWalk
    <3> QED  BY <3>1, <2>0 DEF ProbeInv
  <2> QED  BY <2>2, <2>3 DEF ProbeInv, Served
<1>2. ASSUME Resolve \/ CheckEdges \/ \E r \in Name : Sort(r) PROVE ProbeInv'
  <2>0. /\ UNCHANGED <<ws, nodes, minted, leaves>> /\ stage' # "walk"
        /\ stage \in {"resolve", "sort", "check"}
    BY <1>2 DEF Resolve, CheckEdges, Sort, source, graph
  <2>1. nodes = <<>>  BY <2>0 DEF SliceInv, RouteOK
  <2>2. Attributed'  BY <2>0, <2>1 DEF Attributed
  <2>3. Served' /\ ProbesWired'  BY <2>0, <2>2, SameServed, SameWired DEF ProbeInv, Served
  <2> QED  BY <2>0, <2>3 DEF ProbeInv, Served
<1> QED  BY <1>1, <1>2, EnterProbe, SynthStep, BodyStep, UnitProbe, LeaveProbe DEF Next, Wire
----------------------------------------------------------------------------
(* The order of the units: what their nodes wait for.                        *)
Below(S) == UNION {Up(l) : l \in S}

(* Of the nodes n of unit i and m of unit j of one recipe, n after up.       *)
PairOK(r, i, n, up, j, m) ==
  /\ j = i => m = n
  /\ j < i /\ Over(r, j, i) => m \in up
  /\ \A p \in Units(r)[i].after : j \in Producers(r, p) => m \in up
  /\ m # n /\ Units(r)[i].group # 0 /\ j \in Group(r, i) /\ Orderless(r, i) => m \notin up

(* Of the node of a unit. *)
UnitOK(r, n) ==
  /\ nodes[n].unit \in NonProbes(r)
  /\ \A m \in UnitsOf(r) : PairOK(r, nodes[n].unit, n, Up(n), nodes[m].unit, m)
  /\ \A d \in Units(r)[nodes[n].unit].fine : d \in DOMAIN leaves /\ leaves[d] \subseteq nodes[n].deps
  /\ \A d \in DeclaredCoarseDeps(r) : d \in DOMAIN leaves /\ Below(leaves[d]) \subseteq Up(n)

UnitsOK == \A r \in Name : \A n \in UnitsOf(r) : UnitOK(r, n)

(* A dependency of another recipe's unit came with all of a recipe's leaves. *)
Wholes ==
  \A n \in DOMAIN nodes : \A d \in nodes[n].deps :
    \/ nodes[d].key # NoKey \/ nodes[d].recipe = nodes[n].recipe
    \/ \E s \in DOMAIN leaves : d \in leaves[s] /\ leaves[s] \subseteq nodes[n].deps

(* Of a recipe that was walked: its leaves wait for all of it, and for all   *)
(* of what it requires.                                                      *)
WalkedOK(r) ==
  /\ \A i \in NonProbes(r) : \E n \in UnitsOf(r) : nodes[n].unit = i
  /\ \A d \in DeclaredCoarseDeps(r) :
       d \in DOMAIN leaves /\ Below(leaves[d]) \subseteq Below(leaves[r])
  /\ UnitsOf(r) \subseteq Below(leaves[r])
  /\ \A l \in leaves[r] :
       /\ nodes[l].key = NoKey /\ nodes[l].recipe \in DOMAIN leaves
       /\ UnitsOf(nodes[l].recipe) \subseteq Below(leaves[r])

(* Of the recipe that is being walked.  A unit is below the barrier, or its  *)
(* group is still open and nothing at the front waits for it.                *)
Open(r, i) == Units(r)[i].group # 0 /\ \E l \in todo : l \in Group(r, i)

WalkingOK(r) ==
  /\ \A i \in DOMAIN unitNode :
       i \notin todo /\ unitNode[i] \in UnitsOf(r) /\ nodes[unitNode[i]].unit = i
  /\ barrier \subseteq UnitsOf(r)
  /\ \A n \in UnitsOf(r) :
       /\ nodes[n].unit \in DOMAIN unitNode
       /\ keys = {} /\ probes = {}
       /\ \A k \in DOMAIN probeNode : probeNode[k] < n
       /\ \A s \in DOMAIN leaves : \A l \in leaves[s] : l < n
       /\ n \in Below(barrier) \/ Open(r, nodes[n].unit)
       /\ Open(r, nodes[n].unit) /\ Orderless(r, nodes[n].unit) =>
            \A m \in UnitsOf(r) \ {n} :
              m \in barrier \/ Open(r, nodes[m].unit) => n \notin Up(m)
  /\ \A n \in barrier : ~Open(r, nodes[n].unit)

OrderInv ==
  /\ Wholes /\ UnitsOK
  /\ \A r \in DOMAIN leaves : WalkedOK(r)
  /\ stage = "walk" => WalkingOK(order[at])

(* The groups of a recipe are those of its workspace.                        *)
LEMMA SameGroups ==
  ASSUME ws' = ws
  PROVE  /\ \A r, i : Group(r, i)' = Group(r, i)
         /\ \A r, i, j : Over(r, i, j)' = Over(r, i, j)
         /\ \A r, i : Orderless(r, i)' = Orderless(r, i)
         /\ \A r, p : Producers(r, p)' = Producers(r, p)
         /\ \A r, i, n, up, j, m : PairOK(r, i, n, up, j, m)' = PairOK(r, i, n, up, j, m)
<1>1. \A r, i : Group(r, i)' = Group(r, i)  BY DEF Group, NonProbes, Units
<1>2. \A r, i, j : Over(r, i, j)' = Over(r, i, j)  BY DEF Over, Group, NonProbes, Units
<1>3. \A r, i : Orderless(r, i)' = Orderless(r, i)  BY DEF Orderless, Group, NonProbes, Units
<1>4. \A r, p : Producers(r, p)' = Producers(r, p)  BY DEF Producers, Units
<1>5. \A r, i, n, up, j, m : PairOK(r, i, n, up, j, m)' = PairOK(r, i, n, up, j, m)
  BY DEF PairOK, Orderless, Over, Producers, Group, NonProbes, Units
<1> QED  BY <1>1, <1>2, <1>3, <1>4, <1>5

(* The graph of a plan points back.                                          *)
LEMMA BackGraph == ASSUME GraphOK PROVE Back(nodes)
  BY DEF GraphOK, PointsBack, Back

(* Up and Below are the reachability of the graph of now.                    *)
LEMMA UpIsUpIn == /\ \A n : Up(n) = UpIn(nodes, n)
                  /\ \A S : Below(S) = BelowIn(nodes, S)
  BY DEF Up, UpIn, Below, BelowIn

(* The same of the current graph. *)
LEMMA UpNow ==
  ASSUME PlanInv, NEW n \in Ids
  PROVE  /\ n \in Up(n) /\ Up(n) \subseteq Ids
         /\ \A x \in Up(n) : x <= n /\ Up(x) \subseteq Up(n)
         /\ nodes[n].deps \subseteq Up(n) /\ Below(nodes[n].deps) \subseteq Up(n)
<1>1. Back(nodes)  BY BackGraph DEF PlanInv
<1>2. DOMAIN nodes = Ids  BY <1>1, LenProperties DEF Back, Ids
<1>3. /\ n \in UpIn(nodes, n) /\ UpIn(nodes, n) \subseteq Ids
      /\ \A x \in UpIn(nodes, n) : x <= n
  BY <1>1, <1>2, UpFacts
<1>4. \A x \in UpIn(nodes, n) : UpIn(nodes, x) \subseteq UpIn(nodes, n)
  BY <1>1, <1>2, UpUp
<1>5. nodes[n].deps \subseteq UpIn(nodes, n) /\ BelowIn(nodes, nodes[n].deps) \subseteq UpIn(nodes, n)
  BY <1>1, <1>2, UpDeps
<1> QED  BY <1>3, <1>4, <1>5, UpIsUpIn

(* And after one more node. *)
LEMMA UpNext ==
  ASSUME PlanInv, NEW r \in Name, NEW i \in Nat, NEW k \in Key \cup {NoKey},
         NEW deps, deps \subseteq Ids, nodes' = Append(nodes, Node(r, i, k, deps))
  PROVE  /\ \A n \in Ids : Up(n)' = Up(n)
         /\ \A n : n = Len(nodes) + 1 => Up(n)' = {n} \cup Below(deps)
         /\ \A S : S \subseteq Ids => Below(S)' = Below(S)
<1> DEFINE e == Node(r, i, k, deps)
<1>1. Back(nodes)  BY BackGraph DEF PlanInv
<1>2. DOMAIN nodes = Ids  BY <1>1, LenProperties DEF Back, Ids
<1>3. Back(nodes')
  <2>1. GraphOK'  BY OneMoreNode DEF PlanInv
  <2> QED  BY <2>1 DEF GraphOK, PointsBack, Back
<1>4. e \in NodeRecord /\ e.deps = deps
  <2>1. Len(nodes) \in Nat  BY <1>1, LenProperties DEF Back
  <2> QED  BY <2>1 DEF Node, NodeRecord, Ids
<1> HIDE DEF e
<1>5. /\ \A n \in Ids : UpIn(nodes', n) = UpIn(nodes, n)
      /\ UpIn(nodes', Len(nodes) + 1) = {Len(nodes) + 1} \cup BelowIn(nodes, deps)
  <2>1. nodes' = Append(nodes, e)  BY DEF e
  <2>2. e.deps \subseteq DOMAIN nodes  BY <1>2, <1>4
  <2>3. /\ \A n \in DOMAIN nodes : UpIn(nodes', n) = UpIn(nodes, n)
        /\ UpIn(nodes', Len(nodes) + 1) = {Len(nodes) + 1} \cup BelowIn(nodes, e.deps)
    BY <2>1, <2>2, <1>1, <1>3, <1>4, UpAppend
  <2> QED  BY <2>3, <1>2, <1>4
<1>6. \A n : Up(n)' = UpIn(nodes', n)  BY DEF Up, UpIn
<1>7. \A S : Below(S)' = BelowIn(nodes', S)  BY DEF Below, BelowIn, Up, UpIn
<1>8. \A S : S \subseteq Ids => BelowIn(nodes', S) = BelowIn(nodes, S)  BY <1>5 DEF BelowIn
<1> QED  BY <1>5, <1>6, <1>7, <1>8, UpIsUpIn
----------------------------------------------------------------------------
(* A node added for the recipe r leaves what is known of the others.         *)
LEMMA GrowKeeps ==
  ASSUME PlanInv, OrderInv, UNCHANGED <<ws, reachable, leaves>>,
         NEW r \in Name, r \notin DOMAIN leaves, NEW i \in Nat, NEW k \in Key \cup {NoKey},
         NEW deps, deps \subseteq Ids, nodes' = Append(nodes, Node(r, i, k, deps)),
         \A d \in deps : \/ nodes[d].key # NoKey \/ nodes[d].recipe = r
                         \/ \E s \in DOMAIN leaves : d \in leaves[s] /\ leaves[s] \subseteq deps
  PROVE  /\ Wholes'
         /\ \A s \in DOMAIN leaves : WalkedOK(s)'
         /\ \A s \in Name : UnitsOf(s) \subseteq UnitsOf(s)'
         /\ \A s \in Name : s # r \/ k # NoKey => UnitsOf(s)' = UnitsOf(s)
         /\ k = NoKey => UnitsOf(r)' = UnitsOf(r) \cup {Len(nodes) + 1}
         /\ \A s \in Name : UnitsOf(s)' = UnitsOf(s) => \A n \in UnitsOf(s) : UnitOK(s, n)'
<1>0. PICK id \in {Len(nodes) + 1} : TRUE  OBVIOUS
<1>1. /\ DOMAIN nodes = Ids /\ DOMAIN nodes' = Ids \cup {id}
      /\ id \notin Ids
      /\ \A n \in Ids : nodes'[n] = nodes[n]
      /\ nodes'[id].recipe = r /\ nodes'[id].key = k /\ nodes'[id].deps = deps
  BY <1>0, Appended DEF Node
<1>2. /\ \A n \in Ids : Up(n)' = Up(n)
      /\ \A S : S \subseteq Ids => Below(S)' = Below(S)
  BY UpNext
<1>3. \A n \in Ids : nodes[n].deps \subseteq Ids
  <2>1. Len(nodes) \in Nat  BY LenProperties DEF PlanInv, GraphOK
  <2> QED  BY <1>1, <2>1 DEF PlanInv, GraphOK, PointsBack, Ids
<1>4. \A s \in DOMAIN leaves : leaves[s] \subseteq Ids  BY DEF PlanInv, RefsOK
<1>5. \A s : UnitsOf(s)' = UnitsOf(s) \cup {n \in {id} : s = r /\ k = NoKey}
  BY <1>1 DEF UnitsOf
<1>6. \A s : UnitsOf(s) \subseteq Ids  BY <1>1 DEF UnitsOf
<1>7. \A s : DeclaredCoarseDeps(s)' = DeclaredCoarseDeps(s)  BY DEF DeclaredCoarseDeps
<1>8. Wholes'
  <2>1. ASSUME NEW n \in Ids, NEW d \in nodes'[n].deps
        PROVE  \/ nodes'[d].key # NoKey \/ nodes'[d].recipe = nodes'[n].recipe
               \/ \E s \in DOMAIN leaves' : d \in leaves'[s] /\ leaves'[s] \subseteq nodes'[n].deps
    <3>1. d \in nodes[n].deps /\ d \in Ids  BY <2>1, <1>1, <1>3
    <3>2. \/ nodes[d].key # NoKey \/ nodes[d].recipe = nodes[n].recipe
          \/ \E s \in DOMAIN leaves : d \in leaves[s] /\ leaves[s] \subseteq nodes[n].deps
      BY <3>1, <1>1 DEF OrderInv, Wholes
    <3> QED  BY <3>1, <3>2, <1>1
  <2>2. ASSUME NEW d \in deps
        PROVE  \/ nodes'[d].key # NoKey \/ nodes'[d].recipe = r
               \/ \E s \in DOMAIN leaves' : d \in leaves'[s] /\ leaves'[s] \subseteq deps
    BY <1>1
  <2> QED  BY <2>1, <2>2, <1>1 DEF Wholes
<1>9. ASSUME NEW s \in DOMAIN leaves PROVE WalkedOK(s)'
  <2>1. s # r /\ UnitsOf(s)' = UnitsOf(s)  BY <1>5
  <2>2. \A d \in DOMAIN leaves : Below(leaves[d])' = Below(leaves[d])
    BY <1>2, <1>4
  <2>3. WalkedOK(s)  BY DEF OrderInv
  <2>4. \A j \in NonProbes(s)' : \E n \in UnitsOf(s)' : nodes'[n].unit = j
    BY <2>1, <2>3, <1>1, <1>6, SameWs DEF WalkedOK
  <2>5. \A d \in DeclaredCoarseDeps(s)' :
          d \in DOMAIN leaves' /\ Below(leaves[d])' \subseteq Below(leaves[s])'
    BY <2>2, <2>3, <1>7 DEF WalkedOK
  <2>6. UnitsOf(s)' \subseteq Below(leaves[s])'  BY <2>1, <2>2, <2>3 DEF WalkedOK
  <2>7. ASSUME NEW l \in leaves[s]
        PROVE  /\ nodes'[l].key = NoKey /\ nodes'[l].recipe \in DOMAIN leaves'
               /\ UnitsOf(nodes[l].recipe)' \subseteq Below(leaves[s])'
               /\ nodes'[l] = nodes[l]
    <3>1. l \in Ids /\ nodes'[l] = nodes[l]  BY <1>1, <1>4
    <3>2. nodes[l].recipe \in DOMAIN leaves /\ nodes[l].key = NoKey
          /\ UnitsOf(nodes[l].recipe) \subseteq Below(leaves[s])
      BY <2>3 DEF WalkedOK
    <3> DEFINE t == nodes[l].recipe
    <3>3. t # r  BY <3>2
    <3> HIDE DEF t
    <3>4. \A u : u # r => UnitsOf(u)' = UnitsOf(u)  BY <1>5
    <3>5. \A u : u = nodes[l].recipe => UnitsOf(u)' \subseteq Below(leaves[s])'
      BY <3>2, <3>3, <3>4, <2>2 DEF t
    <3> QED  BY <3>1, <3>2, <3>5
  <2> QED  BY <2>4, <2>5, <2>6, <2>7 DEF WalkedOK
<1>10. ASSUME NEW s \in Name, UnitsOf(s)' = UnitsOf(s), NEW n \in UnitsOf(s)
       PROVE  UnitOK(s, n)'
  <2>1. UnitOK(s, n)  BY DEF OrderInv, UnitsOK
  <2>2. n \in Ids /\ nodes'[n] = nodes[n] /\ Up(n)' = Up(n)  BY <1>1, <1>2, <1>6
  <2>3. \A d \in DOMAIN leaves : Below(leaves[d])' = Below(leaves[d])
    BY <1>2, <1>4
  <2>4. nodes'[n].unit \in NonProbes(s)'  BY <2>1, <2>2, SameWs DEF UnitOK
  <2>5. \A m \in UnitsOf(s)' : PairOK(s, nodes[n].unit, n, Up(n), nodes[m].unit, m)'
    <3>1. ASSUME NEW m \in UnitsOf(s)
          PROVE  PairOK(s, nodes'[n].unit, n, Up(n)', nodes'[m].unit, m)
      BY <2>1, <2>2, <1>1, <1>6 DEF UnitOK
    <3>2. \A a, b, up, m : PairOK(s, a, n, up, b, m)' = PairOK(s, a, n, up, b, m)
      BY SameGroups
    <3> QED  BY <3>1, <1>10, SameWs DEF PairOK, Over, Group, NonProbes, Units, Producers, Orderless
  <2>6. \A d \in Units(s)[nodes[n].unit].fine : d \in DOMAIN leaves /\ leaves[d] \subseteq nodes[n].deps
    BY <2>1 DEF UnitOK
  <2>7. \A d \in DeclaredCoarseDeps(s) : d \in DOMAIN leaves /\ Below(leaves[d])' \subseteq Up(n)'
    BY <2>1, <2>2, <2>3 DEF UnitOK
  <2> QED  BY <2>2, <2>4, <2>5, <2>6, <2>7, <1>7, SameWs DEF UnitOK
<1> QED  BY <1>0, <1>5, <1>8, <1>9, <1>10
----------------------------------------------------------------------------
(* Where neither nodes nor leaves change, what is known of them stays.       *)
LEMMA SameGraph ==
  ASSUME OrderInv, UNCHANGED <<ws, reachable, nodes, leaves>>
  PROVE  Wholes' /\ UnitsOK' /\ \A s \in DOMAIN leaves : WalkedOK(s)'
<1>1. \A n : Up(n)' = Up(n)  BY DEF Up
<1>2. \A S : Below(S)' = Below(S)  BY <1>1 DEF Below
<1>3. \A s : UnitsOf(s)' = UnitsOf(s)  BY DEF UnitsOf
<1>4. \A s : DeclaredCoarseDeps(s)' = DeclaredCoarseDeps(s)  BY DEF DeclaredCoarseDeps
<1>5. Wholes'  BY DEF OrderInv, Wholes
<1>6. UnitsOK'
  <2> SUFFICES ASSUME NEW r \in Name, NEW n \in UnitsOf(r) PROVE UnitOK(r, n)'
    BY <1>3 DEF UnitsOK
  <2>1. UnitOK(r, n)  BY DEF OrderInv, UnitsOK
  <2>2. \A m : PairOK(r, nodes[n].unit, n, Up(n), nodes[m].unit, m)' =
               PairOK(r, nodes[n].unit, n, Up(n), nodes[m].unit, m)
    BY <1>1, SameWs, SameGroups DEF PairOK
  <2> QED  BY <2>1, <2>2, <1>1, <1>2, <1>3, <1>4, SameWs DEF UnitOK
<1>7. ASSUME NEW s \in DOMAIN leaves PROVE WalkedOK(s)'
  <2>1. WalkedOK(s)  BY DEF OrderInv
  <2> QED  BY <2>1, <1>2, <1>3, <1>4, SameWs DEF WalkedOK
<1> QED  BY <1>5, <1>6, <1>7

(* Before the first unit of a recipe. *)
LEMMA NoUnitsYet ==
  ASSUME NEW r, WalkingOK(r), UnitsOf(r) = {}, UnitsOf(r)' = {},
         unitNode' = unitNode, barrier' = barrier
  PROVE  WalkingOK(r)'
<1>1. DOMAIN unitNode = {} /\ barrier = {}  BY DEF WalkingOK
<1> QED  BY <1>1 DEF WalkingOK

(* What comes from the leaves of recipes comes from whole leaves. *)
LEMMA CrossWhole ==
  ASSUME NEW r, NEW d \in CrossDeps(r)
  PROVE  \E s \in DOMAIN leaves : d \in leaves[s] /\ leaves[s] \subseteq CrossDeps(r)
  BY DEF CrossDeps

(* A fine-grained edge leads to a recipe walked before.                      *)
LEMMA FineWhole ==
  ASSUME NEW r, NEW i, NEW d \in FineDeps(r, i)
  PROVE  \E s \in DOMAIN leaves : d \in leaves[s] /\ leaves[s] \subseteq FineDeps(r, i)
  BY DEF FineDeps

(* What a key is wired to is the node of a probe.                            *)
LEMMA WiredProbe ==
  ASSUME PlanInv, MintedOK, NEW r, Own(r), NEW ks, NEW d \in Wired(ks)
  PROVE  nodes[d].key # NoKey
<1>1. PICK k \in ks \cap DOMAIN probeNode : d = probeNode[k]  BY DEF Wired
<1>2. nodes[d].key = k /\ k \in Key  BY <1>1, OwnProvides DEF Provides, Own
<1> QED  BY <1>2, NoKeyAssumption

(* Before the walk there is nothing to order.                                *)
LEMMA OrderInit == Init => OrderInv
<1> SUFFICES ASSUME Init PROVE OrderInv
  OBVIOUS
<1>1. DOMAIN nodes = {} /\ DOMAIN leaves = {} /\ stage # "walk"
  BY EmptyHasNone DEF Init
<1>2. \A r : UnitsOf(r) = {}  BY <1>1 DEF UnitsOf
<1> QED  BY <1>1, <1>2 DEF OrderInv, Wholes, UnitsOK

(* Entering a recipe: it has no unit and no barrier yet.                     *)
LEMMA EnterOrder ==
  ASSUME PlanInv, SliceInv, ProbeInv, OrderInv, NEW r \in Name, EnterRecipe(r) PROVE OrderInv'
<1>0. /\ UNCHANGED <<ws, reachable, order, at, nodes, leaves>> /\ stage = "enter" /\ r = order[at]
  BY DEF EnterRecipe, source, graph
<1>1. Wholes' /\ UnitsOK' /\ \A s \in DOMAIN leaves : WalkedOK(s)'  BY <1>0, SameGraph
<1>2. CASE stage' # "walk"  BY <1>0, <1>1, <1>2 DEF OrderInv
<1>3. CASE unitNode' = Empty /\ barrier' = {}
  <2>1. r \notin DOMAIN leaves  BY <1>0, WalkedName
  <2>2. UnitsOf(r)' = {}
    <3>1. \A n \in DOMAIN nodes : nodes[n].recipe \in DOMAIN leaves
      BY <1>0 DEF ProbeInv, Attributed, Current
    <3> QED  BY <3>1, <2>1, <1>0 DEF UnitsOf
  <2>3. DOMAIN unitNode' = {}  BY <1>3, EmptyHasNone
  <2>4. WalkingOK(r)'  BY <1>3, <2>2, <2>3 DEF WalkingOK
  <2> QED  BY <2>4, <1>0, <1>1 DEF OrderInv
<1> QED  BY <1>2, <1>3 DEF EnterRecipe

(* A demanded probe orders nothing of the recipe.                            *)
LEMMA SynthOrder ==
  ASSUME PlanInv, SliceInv, ProbeInv, OrderInv, NEW r \in Name, NEW k \in Key, SynthProbe(r, k)
  PROVE  OrderInv'
<1> DEFINE deps == CrossDeps(r) \cup Wired(Upstream(r, k))
<1>0. /\ UNCHANGED <<ws, reachable, order, at, leaves, unitNode, barrier>>
      /\ stage = "walk" /\ r = order[at] /\ k \in keys
  BY DEF SynthProbe, source
<1>1. WalkingOK(r) /\ UnitsOf(r) = {} /\ Own(r) /\ MintedOK /\ r \notin DOMAIN leaves
  <2>1. WalkingOK(r) /\ ProbeWalk(r)  BY <1>0 DEF OrderInv, ProbeInv
  <2>2. UnitsOf(r) = {}  BY <2>1, <1>0 DEF WalkingOK
  <2> QED  BY <2>1, <2>2, <1>0, WalkAsOwn, WalkedName DEF ProbeInv
<1>2. CASE ReuseProbe(r, k)
  <2>1. nodes' = nodes  BY <1>2 DEF ReuseProbe, graph
  <2>2. UnitsOf(r)' = {}  BY <2>1, <1>1 DEF UnitsOf
  <2>3. WalkingOK(r)'  BY <2>2, <1>0, <1>1, NoUnitsYet
  <2>4. Wholes' /\ UnitsOK' /\ \A s \in DOMAIN leaves : WalkedOK(s)'
    BY <1>0, <2>1, SameGraph
  <2> QED  BY <2>3, <2>4, <1>0 DEF OrderInv
<1>3. CASE MintProbe(r, 0, k, deps)
  <2>1. deps \subseteq Ids  BY CrossHasIds, WiredHasIds DEF PlanInv
  <2>2. nodes' = Append(nodes, Node(r, 0, k, deps)) /\ k # NoKey
    BY <1>3, NoKeyAssumption DEF MintProbe
  <2>3. \A d \in deps : \/ nodes[d].key # NoKey \/ nodes[d].recipe = r
                        \/ \E s \in DOMAIN leaves : d \in leaves[s] /\ leaves[s] \subseteq deps
    BY <1>1, CrossWhole, WiredProbe
  <2> HIDE DEF deps
  <2>4. /\ Wholes' /\ \A s \in DOMAIN leaves : WalkedOK(s)'
        /\ \A s \in Name : UnitsOf(s)' = UnitsOf(s) /\ \A n \in UnitsOf(s) : UnitOK(s, n)'
    BY <2>1, <2>2, <2>3, <1>0, <1>1, GrowKeeps
  <2>5. UnitsOK'  BY <2>4 DEF UnitsOK
  <2>6. WalkingOK(r)'  BY <2>4, <1>0, <1>1, NoUnitsYet
  <2> QED  BY <2>4, <2>5, <2>6, <1>0 DEF OrderInv
<1> QED  BY <1>2, <1>3 DEF SynthProbe

(* Nor does a probe of the recipe itself.                                    *)
LEMMA BodyOrder ==
  ASSUME PlanInv, SliceInv, ProbeInv, OrderInv,
         NEW r \in Name, NEW i \in DOMAIN Units(r), BodyProbe(r, i)
  PROVE  OrderInv'
<1> DEFINE k == Units(r)[i].probe
           deps == CrossDeps(r) \cup FineDeps(r, i) \cup Wired(Needs(r, i))
<1>0. /\ UNCHANGED <<ws, reachable, order, at, leaves, unitNode, barrier>>
      /\ stage = "walk" /\ r = order[at] /\ i \in probes
  BY DEF BodyProbe, source
<1>1. WalkingOK(r) /\ UnitsOf(r) = {} /\ Own(r) /\ MintedOK /\ r \notin DOMAIN leaves
  <2>1. WalkingOK(r) /\ ProbeWalk(r)  BY <1>0 DEF OrderInv, ProbeInv
  <2>2. UnitsOf(r) = {}  BY <2>1, <1>0 DEF WalkingOK
  <2> QED  BY <2>1, <2>2, <1>0, WalkAsOwn, WalkedName DEF ProbeInv
<1>k. k \in Key /\ k # NoKey /\ i \in Nat
  <2>1. i \in Inside(r)  BY <1>0 DEF ProbeInv, ProbeWalk
  <2>2. k \in Key  BY <2>1, ConsumedFacts DEF Inside, PlanInv
  <2> QED  BY <2>2, NoKeyAssumption, UnitTypes DEF PlanInv
<1>2. CASE nodes' = nodes
  <2>2. UnitsOf(r)' = {}  BY <1>2, <1>1 DEF UnitsOf
  <2>3. WalkingOK(r)'  BY <2>2, <1>0, <1>1, NoUnitsYet
  <2>4. Wholes' /\ UnitsOK' /\ \A s \in DOMAIN leaves : WalkedOK(s)'
    BY <1>0, <1>2, SameGraph
  <2> QED  BY <2>3, <2>4, <1>0 DEF OrderInv
<1>3. CASE MintProbe(r, i, k, deps)
  <2>1. deps \subseteq Ids  BY CrossHasIds, FineHasIds, WiredHasIds DEF PlanInv
  <2>2. nodes' = Append(nodes, Node(r, i, k, deps))  BY <1>3 DEF MintProbe
  <2>3. \A d \in deps : \/ nodes[d].key # NoKey \/ nodes[d].recipe = r
                        \/ \E s \in DOMAIN leaves : d \in leaves[s] /\ leaves[s] \subseteq deps
    BY <1>1, CrossWhole, FineWhole, WiredProbe
  <2> HIDE DEF deps, k
  <2>4. /\ Wholes' /\ \A s \in DOMAIN leaves : WalkedOK(s)'
        /\ \A s \in Name : UnitsOf(s)' = UnitsOf(s) /\ \A n \in UnitsOf(s) : UnitOK(s, n)'
    BY <2>1, <2>2, <2>3, <1>0, <1>1, <1>k, GrowKeeps
  <2>5. UnitsOK'  BY <2>4 DEF UnitsOK
  <2>6. WalkingOK(r)'  BY <2>4, <1>0, <1>1, NoUnitsYet
  <2> QED  BY <2>4, <2>5, <2>6, <1>0 DEF OrderInv
<1> QED  BY <1>2, <1>3 DEF BodyProbe, ReuseProbe, graph
----------------------------------------------------------------------------
(* What the recipe being walked has edges to was walked before. *)
LEMMA EdgesWalked ==
  ASSUME PlanInv, SliceInv, stage = "walk", NEW r, r = order[at]
  PROVE  /\ DeclaredCoarseDeps(r) \subseteq DOMAIN leaves
         /\ \A i \in DOMAIN Units(r) : Units(r)[i].fine \subseteq DOMAIN leaves
<1>1. /\ at \in DOMAIN order /\ Placed = reachable /\ ~Dangling
      /\ DOMAIN leaves = {order[i] : i \in 1 .. at - 1}
  BY DEF SliceInv, RouteOK
<1>2. r \in reachable  BY WalkedName
<1>3. r \notin Edges(r)  BY <1>2 DEF SliceInv, SliceOK
<1>4. Edges(r) \cap reachable \subseteq DOMAIN leaves
  <2> SUFFICES ASSUME NEW d \in Edges(r) \cap reachable PROVE d \in DOMAIN leaves
    OBVIOUS
  <2>1. \E j \in 1 .. at - 1 : order[j] = d  BY <1>1, <1>3 DEF SliceInv, OrderOK
  <2> QED  BY <2>1, <1>1
<1>5. FineOf(r) \subseteq reachable  BY <1>1, <1>2 DEF Dangling
<1> QED  BY <1>4, <1>5 DEF DeclaredCoarseDeps, Edges, FineOf

(* What the node of unit i, the next of r, waits for. *)
DepsOf(r, i) ==
  (IF barrier = {} THEN CrossDeps(r) ELSE barrier)
    \cup FineDeps(r, i) \cup AfterDeps(r, i) \cup Wired(Needs(r, i))

(* The unit that comes next. *)
NextUnit(r, i) ==
  /\ PlanInv /\ SliceInv /\ ProbeInv /\ OrderInv /\ r \in Name /\ stage = "walk" /\ r = order[at]
  /\ i \in todo /\ \A j \in todo : i <= j

(* What the next unit of the walk is.                                        *)
LEMMA NextUnitFacts ==
  ASSUME NEW r, NEW i, NextUnit(r, i)
  PROVE  /\ WalkedUpTo(r) /\ WalkingOK(r) /\ Own(r) /\ MintedOK /\ r \notin DOMAIN leaves
         /\ i \in NonProbes(r) /\ i \in Nat /\ i \in DOMAIN Units(r)
         /\ DepsOf(r, i) \subseteq Ids
         /\ \A n \in UnitsOf(r) :
              /\ n \in Ids /\ nodes[n].unit \in DOMAIN unitNode /\ nodes[n].unit \notin todo
              /\ n = unitNode[nodes[n].unit]
              /\ nodes[n].unit \in NonProbes(r) /\ nodes[n].unit \in Nat
              /\ nodes[n].unit < i
              /\ nodes[n].recipe = r /\ nodes[n].key = NoKey
<1>1. WalkedUpTo(r) /\ WalkingOK(r) /\ ProbeWalk(r)
  BY DEF NextUnit, PlanInv, WalkOK, OrderInv, ProbeInv
<1>2. Own(r) /\ MintedOK /\ r \notin DOMAIN leaves
  BY <1>1, WalkAsOwn, WalkedName DEF NextUnit, ProbeInv
<1>3. i \in NonProbes(r) /\ i \in Nat /\ i \in DOMAIN Units(r) /\ NonProbes(r) \subseteq Nat
  BY <1>1, UnitTypes DEF WalkedUpTo, NonProbes, NextUnit, PlanInv
<1>4. DepsOf(r, i) \subseteq Ids
  <2>1. CrossDeps(r) \subseteq Ids /\ barrier \subseteq Ids
    BY CrossHasIds DEF NextUnit, PlanInv, RefsOK
  <2>2. FineDeps(r, i) \subseteq Ids /\ Wired(Needs(r, i)) \subseteq Ids
    BY FineHasIds, WiredHasIds DEF NextUnit, PlanInv
  <2>3. AfterDeps(r, i) \subseteq Ids  BY <1>1, AfterHasIds DEF NextUnit, PlanInv
  <2> QED  BY <2>1, <2>2, <2>3 DEF DepsOf
<1>5. ASSUME NEW n \in UnitsOf(r)
      PROVE  /\ n \in Ids /\ nodes[n].unit \in DOMAIN unitNode /\ nodes[n].unit \notin todo
             /\ n = unitNode[nodes[n].unit]
             /\ nodes[n].unit \in NonProbes(r) /\ nodes[n].unit \in Nat
             /\ nodes[n].unit < i
             /\ nodes[n].recipe = r /\ nodes[n].key = NoKey
  <2> DEFINE j == nodes[n].unit
  <2>1. DOMAIN nodes = Ids  BY LenProperties DEF NextUnit, PlanInv, GraphOK, Ids
  <2>2. n \in Ids /\ nodes[n].recipe = r /\ nodes[n].key = NoKey  BY <2>1 DEF UnitsOf
  <2>3. j \in DOMAIN unitNode  BY <1>1 DEF WalkingOK
  <2>4. j \notin todo /\ unitNode[j] \in UnitsOf(r) /\ nodes[unitNode[j]].unit = j
    BY <1>1, <2>3 DEF WalkingOK
  <2>5. UnitOK(r, n)  BY DEF NextUnit, OrderInv, UnitsOK
  <2>6. j \in NonProbes(r) /\ unitNode[j] = n  BY <2>4, <2>5 DEF UnitOK, PairOK
  <2>7. j \in Nat /\ i # j /\ ~ (i < j)
    <3>1. j \in Nat  BY <2>6, <1>3
    <3>2. i < j => j \in todo  BY <2>6, <1>1 DEF NextUnit, WalkedUpTo
    <3> QED  BY <3>1, <3>2, <2>4 DEF NextUnit
  <2>8. j < i  BY <2>7, <1>3
  <2> QED  BY <2>2, <2>3, <2>4, <2>6, <2>7, <2>8
<1> QED  BY <1>1, <1>2, <1>3, <1>4, <1>5

(* An earlier unit whose group is over is below the barrier. *)
LEMMA OverIsBelow ==
  ASSUME NEW r, NEW i, NextUnit(r, i), NEW n \in UnitsOf(r),
         ~Open(r, nodes[n].unit)
  PROVE  n \in Below(barrier) /\ n \in Below(DepsOf(r, i))
<1>1. n \in Below(barrier)  BY NextUnitFacts DEF WalkingOK
<1>2. barrier # {}  BY <1>1 DEF Below
<1> QED  BY <1>1, <1>2 DEF Below, DepsOf

(* The front does not wait for a member of an open group without order.      *)
LEMMA OpenIsFree ==
  ASSUME NEW r, NEW i, NextUnit(r, i), NEW n \in UnitsOf(r),
         Open(r, nodes[n].unit), Orderless(r, nodes[n].unit),
         Units(r)[i].after = {}
  PROVE  n \notin Below(DepsOf(r, i))
<1> SUFFICES ASSUME NEW d \in DepsOf(r, i), n \in Up(d) PROVE FALSE
  BY DEF Below
<1>1. WalkingOK(r) /\ d \in Ids /\ PlanInv /\ n \in Ids  BY NextUnitFacts DEF NextUnit
<1>2. n <= d  BY <1>1, UpNow
<1>3. n \in Nat /\ d \in Nat  BY <1>1 DEF Ids
<1>4. \A s \in DOMAIN leaves : \A l \in leaves[s] : l < n  BY <1>1 DEF WalkingOK
<1>5. \A k \in DOMAIN probeNode : probeNode[k] < n  BY <1>1 DEF WalkingOK
<1>6. ~ (d < n)  BY <1>2, <1>3
<1>7. d \notin CrossDeps(r) /\ d \notin FineDeps(r, i)
  BY <1>4, <1>6 DEF CrossDeps, FineDeps
<1>8. d \notin Wired(Needs(r, i))  BY <1>5, <1>6 DEF Wired
<1>9. AfterDeps(r, i) = {}  BY DEF AfterDeps
<1>10. d \in barrier  BY <1>7, <1>8, <1>9 DEF DepsOf
<1>11. d \in UnitsOf(r) /\ ~Open(r, nodes[d].unit)  BY <1>1, <1>10 DEF WalkingOK
<1>12. d # n  BY <1>11
<1> QED  BY <1>1, <1>10, <1>11, <1>12 DEF WalkingOK

(* What the node of the next unit waits for is what its body says.           *)
LEMMA UnitPairs ==
  ASSUME NEW r, NEW i, NextUnit(r, i), NEW id, id \notin Ids, NEW n \in UnitsOf(r)
  PROVE  /\ PairOK(r, i, id, {id} \cup Below(DepsOf(r, i)), nodes[n].unit, n)
         /\ PairOK(r, nodes[n].unit, n, Up(n), i, id)
<1> DEFINE j == nodes[n].unit
           up == {id} \cup Below(DepsOf(r, i))
<1>1. /\ WalkedUpTo(r) /\ i \in NonProbes(r) /\ i \in Nat /\ i \in DOMAIN Units(r)
      /\ n \in Ids /\ j \in NonProbes(r) /\ j \in Nat /\ j < i /\ n = unitNode[j]
      /\ PlanInv /\ j \in DOMAIN Units(r)
  BY NextUnitFacts DEF NextUnit, NonProbes
<1>2. n # id /\ i # j  BY <1>1
<1>3. ASSUME Over(r, j, i) PROVE n \in up
  <2>1. ~Open(r, j)
    <3>1. \A l \in todo : l \in Nat /\ ~ (l < i)
      BY <1>1, UnitTypes DEF NextUnit, WalkedUpTo, PlanInv
    <3> QED  BY <3>1, <1>3 DEF Open, Over
  <2> QED  BY <2>1, OverIsBelow
<1>4. ASSUME NEW p \in Units(r)[i].after, j \in Producers(r, p) PROVE n \in up
  <2>1. n \in AfterDeps(r, i)  BY <1>1, <1>4 DEF AfterDeps
  <2>2. n \in DepsOf(r, i)  BY <2>1 DEF DepsOf
  <2>3. n \in Up(n)  BY <1>1, UpNow
  <2> QED  BY <2>2, <2>3 DEF Below
<1>5. ASSUME Units(r)[i].group # 0, j \in Group(r, i), Orderless(r, i) PROVE n \notin up
  <2>1. Units(r)[j].group = Units(r)[i].group /\ i \in Group(r, j) /\ i \in Group(r, i)
    BY <1>1, <1>5 DEF Group
  <2>2. Group(r, j) = Group(r, i)  BY <2>1 DEF Group
  <2>3. Open(r, j)  BY <2>1, <1>5 DEF Open, NextUnit
  <2>4. Orderless(r, j)  BY <2>2, <1>5 DEF Orderless
  <2>5. Units(r)[i].after = {}  BY <1>1, <1>5, <2>1 DEF Orderless
  <2>6. n \notin Below(DepsOf(r, i))  BY <2>3, <2>4, <2>5, OpenIsFree
  <2> QED  BY <2>6, <1>2
<1>6. PairOK(r, i, id, up, j, n)  BY <1>2, <1>3, <1>4, <1>5 DEF PairOK
<1>7. id \notin Up(n)  BY <1>1, UpNow
<1>8. \A p \in Units(r)[j].after : i \notin Producers(r, p)
  <2> SUFFICES ASSUME NEW p \in Units(r)[j].after, i \in Producers(r, p) PROVE FALSE
    OBVIOUS
  <2>1. PICK l \in 1 .. j - 1 : Producers(r, p) = {l}
    BY <1>1 DEF WalkedUpTo, AfterResolves
  <2> QED  BY <2>1, <1>1
<1>9. ~ (i < j)  BY <1>1
<1>10. PairOK(r, j, n, Up(n), i, id)  BY <1>2, <1>7, <1>8, <1>9 DEF PairOK
<1> QED  BY <1>6, <1>10
----------------------------------------------------------------------------
(* The next unit does not close the group of any other. *)
LEMMA GroupsNext ==
  ASSUME NEW r, NEW i, NextUnit(r, i), ws' = ws, todo' = todo \ {i}
  PROVE  /\ \A j : Open(r, j)' => Open(r, j)
         /\ \A j \in NonProbes(r) : Open(r, j) /\ j \notin Group(r, i) => Open(r, j)'
         /\ \A j \in Group(r, i) : Units(r)[i].group # 0 =>
              (Open(r, j)' <=> \E l \in Group(r, i) : ~ (l <= i))
         /\ Units(r)[i].group = 0 => ~Open(r, i)'
<1>1. /\ WalkedUpTo(r) /\ i \in NonProbes(r) /\ NonProbes(r) \subseteq Nat /\ i \in Nat
  BY NextUnitFacts, UnitTypes DEF NextUnit, PlanInv
<1>2. \A j : Open(r, j)' <=> Units(r)[j].group # 0 /\ \E l \in todo \ {i} : l \in Group(r, j)
  BY SameWs, SameGroups DEF Open
<1>3. \A j : Open(r, j)' => Open(r, j)  BY <1>2 DEF Open
<1>4. ASSUME NEW j \in NonProbes(r), Open(r, j), j \notin Group(r, i) PROVE Open(r, j)'
  <2>1. PICK l \in todo : l \in Group(r, j)  BY <1>4 DEF Open
  <2>2. l # i  BY <2>1, <1>1, <1>4 DEF Group
  <2> QED  BY <2>1, <2>2, <1>2, <1>4 DEF Open
<1>5. ASSUME NEW j \in Group(r, i), Units(r)[i].group # 0
      PROVE  Open(r, j)' <=> \E l \in Group(r, i) : ~ (l <= i)
  <2>1. Group(r, j) = Group(r, i) /\ Units(r)[j].group # 0  BY <1>5 DEF Group
  <2>2. ASSUME NEW l \in Group(r, i) PROVE l \in todo \ {i} <=> ~ (l <= i)
    <3>1. l \in NonProbes(r) /\ l \in Nat  BY <1>1 DEF Group
    <3>2. l \in todo => i <= l  BY DEF NextUnit
    <3>3. i < l => l \in todo  BY <3>1, <1>1 DEF NextUnit, WalkedUpTo
    <3> QED  BY <3>1, <3>2, <3>3, <1>1
  <2> QED  BY <2>1, <2>2, <1>2
<1>6. Units(r)[i].group = 0 => ~Open(r, i)'  BY <1>2
<1> QED  BY <1>3, <1>4, <1>5, <1>6

(* The three ways the barrier moves. *)
LEMMA BarrierCases ==
  ASSUME NEW r, NEW i, NextUnit(r, i), NEW id
  PROVE  \/ Units(r)[i].group = 0 /\ Barrier(r, i, id) = {id}
         \/ /\ Units(r)[i].group # 0 /\ \A j \in Group(r, i) : j <= i
            /\ Barrier(r, i, id) = {id} \cup {n \in UnitsOf(r) : nodes[n].unit \in Group(r, i)}
         \/ /\ Units(r)[i].group # 0 /\ \E j \in Group(r, i) : ~ (j <= i)
            /\ Barrier(r, i, id) = barrier
<1>0. WalkingOK(r) /\ WalkedUpTo(r) /\ i \in NonProbes(r) /\ i \in Nat /\ NonProbes(r) \subseteq Nat
  BY NextUnitFacts, UnitTypes DEF NextUnit, PlanInv
<1>1. ASSUME Units(r)[i].group # 0, \A j \in Group(r, i) : j <= i
      PROVE  {unitNode[j] : j \in Group(r, i) \ {i}} =
               {n \in UnitsOf(r) : nodes[n].unit \in Group(r, i)}
  <2>1. ASSUME NEW j \in Group(r, i) \ {i}
        PROVE  unitNode[j] \in UnitsOf(r) /\ nodes[unitNode[j]].unit = j
    <3>1. j \in NonProbes(r) /\ j \in Nat /\ j <= i /\ j # i  BY <1>0, <1>1 DEF Group
    <3>2. j \notin todo
      <4>1. j \in todo => i <= j  BY DEF NextUnit
      <4> QED  BY <4>1, <3>1, <1>0
    <3> QED  BY <3>1, <3>2, <1>0 DEF WalkedUpTo, WalkingOK
  <2>2. ASSUME NEW n \in UnitsOf(r), nodes[n].unit \in Group(r, i)
        PROVE  nodes[n].unit \in Group(r, i) \ {i} /\ n = unitNode[nodes[n].unit]
    BY <2>2, NextUnitFacts
  <2> QED  BY <2>1, <2>2
<1> QED  BY <1>1 DEF Barrier

(* A unit added: it waits for all it must, and all it closes off is below    *)
(* it.                                                                       *)
LEMMA UnitOrder ==
  ASSUME PlanInv, SliceInv, ProbeInv, OrderInv,
         NEW r \in Name, NEW i \in DOMAIN Units(r), Unit(r, i)
  PROVE  OrderInv'
<1>0. /\ UNCHANGED <<ws, reachable, order, at, leaves, keys, probes, probeNode>>
      /\ stage = "walk" /\ r = order[at] /\ todo' = todo \ {i} /\ keys = {} /\ probes = {}
      /\ NextUnit(r, i)
  BY DEF Unit, source, NextUnit
<1> DEFINE deps == DepsOf(r, i)
<1>1. /\ WalkedUpTo(r) /\ WalkingOK(r) /\ Own(r) /\ MintedOK /\ r \notin DOMAIN leaves
      /\ i \in NonProbes(r) /\ i \in Nat /\ deps \subseteq Ids
      /\ \A n \in UnitsOf(r) :
           /\ n \in Ids /\ nodes[n].unit \in DOMAIN unitNode /\ nodes[n].unit \notin todo
           /\ n = unitNode[nodes[n].unit]
           /\ nodes[n].unit \in NonProbes(r) /\ nodes[n].unit \in Nat
           /\ nodes[n].unit < i
           /\ nodes[n].recipe = r /\ nodes[n].key = NoKey
  BY <1>0, NextUnitFacts
<1>2. CASE stage' = "unscheduled" /\ UNCHANGED nodes
  <2>1. Wholes' /\ UnitsOK' /\ \A s \in DOMAIN leaves : WalkedOK(s)'
    BY <1>0, <1>2, SameGraph
  <2> QED  BY <2>1, <1>0, <1>2 DEF OrderInv
<1>3. CASE /\ nodes' = Append(nodes, Node(r, i, NoKey, deps))
           /\ unitNode' = With(unitNode, i, Len(nodes) + 1)
           /\ barrier' = Barrier(r, i, Len(nodes) + 1)
  <2>0. PICK id \in {Len(nodes) + 1} : TRUE  OBVIOUS
  <2>1. \A d \in deps : \/ nodes[d].key # NoKey \/ nodes[d].recipe = r
                        \/ \E s \in DOMAIN leaves : d \in leaves[s] /\ leaves[s] \subseteq deps
    <3> SUFFICES ASSUME NEW d \in deps
                 PROVE  \/ nodes[d].key # NoKey \/ nodes[d].recipe = r
                        \/ \E s \in DOMAIN leaves : d \in leaves[s] /\ leaves[s] \subseteq deps
      OBVIOUS
    <3>1. CASE barrier = {} /\ d \in CrossDeps(r)
      BY <3>1, CrossWhole DEF DepsOf
    <3>2. CASE d \in barrier
      BY <3>2, <1>1 DEF WalkingOK
    <3>3. CASE d \in FineDeps(r, i)  BY <3>3, FineWhole DEF DepsOf
    <3>4. CASE d \in AfterDeps(r, i)
      <4>0. PICK p \in Units(r)[i].after : \E j \in Producers(r, p) : d = unitNode[j]
        BY <3>4 DEF AfterDeps
      <4>1. PICK j \in Producers(r, p) : d = unitNode[j]  BY <4>0
      <4>2. j \in DOMAIN unitNode  BY <4>1, <1>0, <1>1, ProducersWalked DEF NextUnit, PlanInv
      <4> QED  BY <4>1, <4>2, <1>1 DEF WalkingOK
    <3>5. CASE d \in Wired(Needs(r, i))  BY <3>5, <1>1, WiredProbe
    <3> QED  BY <3>1, <3>2, <3>3, <3>4, <3>5 DEF DepsOf
  <2> HIDE DEF deps
  <2>2. /\ Wholes' /\ \A s \in DOMAIN leaves : WalkedOK(s)'
        /\ UnitsOf(r)' = UnitsOf(r) \cup {id}
        /\ \A s \in Name \ {r} : UnitsOf(s)' = UnitsOf(s) /\ \A n \in UnitsOf(s) : UnitOK(s, n)'
    <3>1. UNCHANGED <<ws, reachable, leaves>> /\ NoKey \in Key \cup {NoKey}  BY <1>0
    <3>2. nodes' = Append(nodes, Node(r, i, NoKey, deps))  BY <1>3
    <3>3. /\ Wholes' /\ \A s \in DOMAIN leaves : WalkedOK(s)'
          /\ \A s \in Name : s # r \/ NoKey # NoKey => UnitsOf(s)' = UnitsOf(s)
          /\ NoKey = NoKey => UnitsOf(r)' = UnitsOf(r) \cup {Len(nodes) + 1}
          /\ \A s \in Name : UnitsOf(s)' = UnitsOf(s) => \A n \in UnitsOf(s) : UnitOK(s, n)'
      BY <3>1, <3>2, <2>1, <1>1, GrowKeeps
    <3> QED  BY <3>3, <2>0
  <2>3. /\ DOMAIN nodes = Ids /\ DOMAIN nodes' = Ids \cup {id}
        /\ id \notin Ids /\ \A n \in Ids : n < id
        /\ \A n \in Ids : nodes'[n] = nodes[n]
        /\ nodes'[id].recipe = r /\ nodes'[id].key = NoKey
        /\ nodes'[id].unit = i /\ nodes'[id].deps = deps
    BY <2>0, <1>1, <1>3, Appended DEF Node
  <2>4. /\ \A n \in Ids : Up(n)' = Up(n) /\ n \in Up(n) /\ Up(n) \subseteq Ids
        /\ Up(id)' = {id} \cup Below(deps)
        /\ \A S : S \subseteq Ids => Below(S)' = Below(S)
    <3>1. /\ \A n \in Ids : Up(n)' = Up(n)
          /\ \A n : n = Len(nodes) + 1 => Up(n)' = {n} \cup Below(deps)
          /\ \A S : S \subseteq Ids => Below(S)' = Below(S)
      BY <1>1, <1>3, UpNext
    <3> QED  BY <3>1, <2>0, UpNow
  <2>5. \A s \in DOMAIN leaves : leaves[s] \subseteq Ids /\ Below(leaves[s])' = Below(leaves[s])
    <3>1. \A s \in DOMAIN leaves : leaves[s] \subseteq Ids  BY DEF PlanInv, RefsOK
    <3> QED  BY <3>1, <2>4, <1>0
  <2>6. \A n \in UnitsOf(r) :
          /\ PairOK(r, i, id, Up(id)', nodes[n].unit, n)
          /\ PairOK(r, nodes[n].unit, n, Up(n), i, id)
    <3>1. \A n \in UnitsOf(r) :
            /\ PairOK(r, i, id, {id} \cup Below(DepsOf(r, i)), nodes[n].unit, n)
            /\ PairOK(r, nodes[n].unit, n, Up(n), i, id)
      BY <2>3, <1>0, UnitPairs
    <3>2. Up(id)' = {id} \cup Below(DepsOf(r, i))  BY <2>4 DEF deps
    <3> QED  BY <3>1, <3>2
  <2>7. PairOK(r, i, id, Up(id)', i, id)
    <3>1. id \in Up(id)'  BY <2>4
    <3>2. ~ (i < i)  BY <1>1
    <3> QED  BY <3>1, <3>2 DEF PairOK
  <2>8. DeclaredCoarseDeps(r)' = DeclaredCoarseDeps(r)  BY <1>0 DEF DeclaredCoarseDeps
  <2>9. UnitOK(r, id)'
    <3>1. nodes'[id].unit \in NonProbes(r)'  BY <2>3, <1>0, <1>1, SameWs
    <3>2. \A m \in UnitsOf(r)' : PairOK(r, nodes[id].unit, id, Up(id), nodes[m].unit, m)'
      <4>1. \A m \in UnitsOf(r)' : PairOK(r, nodes'[id].unit, id, Up(id)', nodes'[m].unit, m)
        BY <2>2, <2>3, <2>6, <2>7, <1>1
      <4> SUFFICES ASSUME NEW m \in UnitsOf(r)'
                   PROVE  PairOK(r, nodes[id].unit, id, Up(id), nodes[m].unit, m)'
        OBVIOUS
      <4>2. PairOK(r, nodes'[id].unit, id, Up(id)', nodes'[m].unit, m)  BY <4>1
      <4> QED  BY <4>2, <1>0 DEF PairOK, Over, Orderless, Producers, Group, NonProbes, Units
    <3>3. \A d \in Units(r)[i].fine : d \in DOMAIN leaves /\ leaves[d] \subseteq deps
      BY <1>0, <1>1, EdgesWalked DEF deps, DepsOf, FineDeps, NextUnit, NonProbes
    <3>4. ASSUME NEW d \in DeclaredCoarseDeps(r)
          PROVE  d \in DOMAIN leaves /\ Below(leaves[d]) \subseteq Up(id)'
      <4>1. d \in DOMAIN leaves  BY <1>0, EdgesWalked
      <4>2. CASE barrier = {}
        <5>1. leaves[d] \subseteq deps  BY <4>1, <4>2 DEF deps, DepsOf, CrossDeps
        <5> QED  BY <5>1, <4>1, <2>4 DEF Below
      <4>3. CASE barrier # {}
        <5>1. PICK b \in barrier : TRUE  BY <4>3
        <5>2. b \in UnitsOf(r) /\ b \in deps  BY <5>1, <1>1 DEF WalkingOK, deps, DepsOf
        <5>3. Below(leaves[d]) \subseteq Up(b)  BY <5>2, <1>0 DEF OrderInv, UnitsOK, UnitOK
        <5> QED  BY <5>2, <5>3, <4>1, <2>4 DEF Below
      <4> QED  BY <4>2, <4>3
    <3> QED  BY <3>1, <3>2, <3>3, <3>4, <2>3, <2>5, <2>8, <1>0, SameWs DEF UnitOK
  <2>10. ASSUME NEW n \in UnitsOf(r) PROVE UnitOK(r, n)'
    <3>1. UnitOK(r, n) /\ n \in Ids  BY <1>0, <1>1 DEF OrderInv, UnitsOK
    <3>2. \A m \in UnitsOf(r)' : PairOK(r, nodes[n].unit, n, Up(n), nodes[m].unit, m)'
      <4>1. \A m \in UnitsOf(r)' : PairOK(r, nodes'[n].unit, n, Up(n)', nodes'[m].unit, m)
        BY <2>2, <2>3, <2>4, <2>6, <1>1, <3>1 DEF UnitOK
      <4> SUFFICES ASSUME NEW m \in UnitsOf(r)'
                   PROVE  PairOK(r, nodes[n].unit, n, Up(n), nodes[m].unit, m)'
        OBVIOUS
      <4>2. PairOK(r, nodes'[n].unit, n, Up(n)', nodes'[m].unit, m)  BY <4>1
      <4> QED  BY <4>2, <1>0 DEF PairOK, Over, Orderless, Producers, Group, NonProbes, Units
    <3> QED  BY <3>1, <3>2, <2>3, <2>4, <2>5, <2>8, <1>0, SameWs DEF UnitOK
  <2>11. UnitsOK'
    <3>1. ASSUME NEW s \in Name, NEW n \in UnitsOf(s)' PROVE UnitOK(s, n)'
      <4>1. CASE s = r  BY <4>1, <3>1, <2>2, <2>9, <2>10
      <4>2. CASE s # r  BY <4>2, <3>1, <2>2
      <4> QED  BY <4>1, <4>2
    <3> QED  BY <3>1 DEF UnitsOK
  <2>12. /\ \A j : Open(r, j)' => Open(r, j)
         /\ \A j \in NonProbes(r) : Open(r, j) /\ j \notin Group(r, i) => Open(r, j)'
         /\ \A j \in Group(r, i) : Units(r)[i].group # 0 =>
              (Open(r, j)' <=> \E l \in Group(r, i) : ~ (l <= i))
         /\ Units(r)[i].group = 0 => ~Open(r, i)'
    BY <1>0, GroupsNext
  <2>13. \/ Units(r)[i].group = 0 /\ barrier' = {id}
         \/ /\ Units(r)[i].group # 0 /\ \A j \in Group(r, i) : j <= i
            /\ barrier' = {id} \cup {n \in UnitsOf(r) : nodes[n].unit \in Group(r, i)}
         \/ /\ Units(r)[i].group # 0 /\ \E j \in Group(r, i) : ~ (j <= i)
            /\ barrier' = barrier
    BY <2>0, <1>0, <1>3, BarrierCases
  <2>14. WalkingOK(r)'
    <3>1. \A j \in DOMAIN unitNode' :
            j \notin todo' /\ unitNode'[j] \in UnitsOf(r)' /\ nodes'[unitNode'[j]].unit = j
      <4>1. /\ DOMAIN unitNode' = DOMAIN unitNode \cup {i}
            /\ \A j \in DOMAIN unitNode' : unitNode'[j] = IF j = i THEN id ELSE unitNode[j]
        BY <2>0, <1>3 DEF With
      <4>2. i \notin DOMAIN unitNode  BY <1>0, <1>1 DEF WalkingOK, NextUnit
      <4> QED  BY <4>1, <4>2, <2>2, <2>3, <1>0, <1>1 DEF WalkingOK
    <3>2. barrier' \subseteq UnitsOf(r)'  BY <2>2, <2>13, <1>1 DEF WalkingOK
    <3>3. barrier \subseteq Ids  BY DEF PlanInv, RefsOK
    <3>4. ASSUME NEW n \in UnitsOf(r)'
          PROVE  /\ nodes'[n].unit \in DOMAIN unitNode' /\ keys' = {} /\ probes' = {}
                 /\ \A k \in DOMAIN probeNode' : probeNode'[k] < n
                 /\ \A s \in DOMAIN leaves' : \A l \in leaves'[s] : l < n
      <4>1. DOMAIN unitNode' = DOMAIN unitNode \cup {i}  BY <1>3 DEF With
      <4>2. CASE n = id
        <5>1. \A k \in DOMAIN probeNode : probeNode[k] \in Ids  BY DEF PlanInv, RefsOK
        <5> QED  BY <5>1, <4>1, <4>2, <2>3, <2>5, <1>0
      <4>3. CASE n \in UnitsOf(r)  BY <4>1, <4>3, <2>3, <1>0, <1>1 DEF WalkingOK
      <4> QED  BY <4>2, <4>3, <2>2
    <3>5. ASSUME NEW n \in UnitsOf(r)' PROVE n \in Below(barrier)' \/ Open(r, nodes[n].unit)'
      <4>0. \A j : j = nodes'[n].unit => (Open(r, nodes[n].unit)' <=> Open(r, j)')  BY DEF Open
      <4>a. \A b \in barrier' : Up(b)' \subseteq Below(barrier)'  BY DEF Below
      <4>b. \A m \in Ids : m \in Below(barrier) => m \in Up(id)'
        <5> SUFFICES ASSUME NEW m \in Ids, m \in Below(barrier) PROVE m \in Up(id)'
          OBVIOUS
        <5>1. PICK b \in barrier : m \in Up(b)  BY DEF Below
        <5>2. b \in deps  BY <5>1 DEF deps, DepsOf
        <5> QED  BY <5>1, <5>2, <2>4 DEF Below
      <4>1. CASE n = id
        <5>1. id \in Up(id)' /\ nodes'[n].unit = i  BY <4>1, <2>3, <2>4
        <5>2. CASE id \in barrier'  BY <5>1, <5>2, <4>1, <4>a
        <5>3. CASE id \notin barrier'
          <6>1. Units(r)[i].group # 0 /\ \E j \in Group(r, i) : ~ (j <= i)  BY <5>3, <2>13
          <6>2. i \in Group(r, i)  BY <1>1 DEF Group
          <6>3. Open(r, i)'  BY <6>1, <6>2, <2>12
          <6> QED  BY <6>3, <5>1, <4>0
        <5> QED  BY <5>2, <5>3
      <4>2. CASE n \in UnitsOf(r)
        <5>0. PICK j \in {nodes[n].unit} : TRUE  OBVIOUS
        <5>1. j \in NonProbes(r) /\ n \in Ids /\ nodes'[n].unit = j
          BY <5>0, <4>2, <1>1, <2>3
        <5>2. n \in Below(barrier) \/ Open(r, j)  BY <5>0, <4>2, <1>1 DEF WalkingOK
        <5>3. CASE n \in Below(barrier)
          <6>1. CASE id \in barrier'  BY <6>1, <5>1, <5>3, <4>a, <4>b
          <6>2. CASE id \notin barrier'
            <7>1. barrier' = barrier  BY <6>2, <2>13
            <7>2. PICK b \in barrier : n \in Up(b)  BY <5>3 DEF Below
            <7>3. n \in Up(b)'  BY <7>2, <3>3, <2>4
            <7> QED  BY <7>1, <7>2, <7>3, <4>a
          <6> QED  BY <6>1, <6>2
        <5>4. CASE Open(r, j) /\ j \notin Group(r, i)
          <6>1. Open(r, j)'  BY <5>1, <5>4, <2>12
          <6> QED  BY <6>1, <5>1, <4>0
        <5>5. CASE Open(r, j) /\ j \in Group(r, i)
          <6>0. Units(r)[i].group # 0  BY <5>5 DEF Open, Group
          <6>1. CASE \E l \in Group(r, i) : ~ (l <= i)
            <7>1. Open(r, j)'  BY <6>0, <6>1, <5>5, <2>12
            <7> QED  BY <7>1, <5>1, <4>0
          <6>2. CASE \A l \in Group(r, i) : l <= i
            <7>1. n \in barrier'  BY <5>0, <6>0, <6>2, <5>5, <4>2, <2>13
            <7>2. n \in Up(n)'  BY <5>1, <2>4
            <7> QED  BY <7>1, <7>2, <4>a
          <6> QED  BY <6>1, <6>2
        <5> QED  BY <5>2, <5>3, <5>4, <5>5
      <4> QED  BY <4>1, <4>2, <2>2
    <3>6. ASSUME NEW n \in UnitsOf(r)', Open(r, nodes[n].unit)', Orderless(r, nodes[n].unit)',
                 NEW m \in UnitsOf(r)' \ {n}, m \in barrier' \/ Open(r, nodes[m].unit)'
          PROVE  n \notin Up(m)'
      <4>1. CASE n = id
        <5>1. m \in Ids  BY <4>1, <3>6, <2>2, <1>1
        <5> QED  BY <5>1, <4>1, <2>3, <2>4
      <4>2. CASE n \in UnitsOf(r)
        <5>0. PICK j \in {nodes[n].unit} : TRUE  OBVIOUS
        <5>1. j \in NonProbes(r) /\ n \in Ids /\ nodes'[n].unit = j /\ j \in Nat /\ j < i
          BY <5>0, <4>2, <1>1, <2>3
        <5>2. Open(r, j)' /\ Orderless(r, j)
          <6>1. Open(r, j)'  BY <5>1, <3>6 DEF Open
          <6>2. Orderless(r, j)'  BY <5>1, <3>6 DEF Orderless, Group
          <6> QED  BY <6>1, <6>2, <1>0, SameGroups
        <5>3. Open(r, j)  BY <5>2, <2>12
        <5>4. CASE m \in UnitsOf(r)
          <6>1. m \in Ids /\ nodes'[m].unit = nodes[m].unit /\ nodes[m].unit \in NonProbes(r)
            BY <5>4, <1>1, <2>3
          <6>2. m \in barrier \/ Open(r, nodes[m].unit)
            <7>1. CASE Open(r, nodes[m].unit)'
              <8>1. \A l : l = nodes[m].unit => Open(r, l)'  BY <7>1, <6>1 DEF Open
              <8> QED  BY <8>1, <2>12
            <7>2. CASE m \in barrier' /\ m \notin barrier
              <8>1. m # id  BY <6>1, <2>3
              <8>2. nodes[m].unit \in Group(r, i) /\ Units(r)[i].group # 0
                BY <7>2, <8>1, <2>13
              <8>3. /\ i \in Group(r, nodes[m].unit) /\ Units(r)[nodes[m].unit].group # 0
                BY <8>2, <1>1 DEF Group
              <8> QED  BY <8>3, <1>0 DEF Open, NextUnit
            <7> QED  BY <7>1, <7>2, <3>6
          <6>3. n \notin Up(m)  BY <5>0, <6>2, <5>2, <5>3, <5>4, <4>2, <3>6, <1>1 DEF WalkingOK
          <6> QED  BY <6>1, <6>3, <2>4
        <5>5. CASE m = id
          <6>1. Units(r)[i].after = {}
            <7>1. PICK l \in todo' : l \in Group(r, j)  BY <5>2, <1>0, SameGroups DEF Open
            <7>2. l \in Nat /\ i <= l  BY <7>1, <1>0, <1>1, UnitTypes DEF NextUnit, WalkedUpTo, PlanInv
            <7>3. j \in Group(r, j)  BY <5>1 DEF Group
            <7>4. j <= i  BY <5>1, <1>1
            <7> QED  BY <7>1, <7>2, <7>3, <7>4, <5>2, <1>1 DEF Orderless
          <6>2. n \notin Below(deps)  BY <5>0, <6>1, <5>2, <5>3, <4>2, <1>0, OpenIsFree DEF deps
          <6> QED  BY <6>2, <5>1, <5>5, <2>3, <2>4
        <5> QED  BY <5>4, <5>5, <2>2
      <4> QED  BY <4>1, <4>2, <2>2
    <3>7. ASSUME NEW n \in barrier' PROVE ~Open(r, nodes[n].unit)'
      <4>1. \A j : j = nodes'[n].unit => (Open(r, nodes[n].unit)' <=> Open(r, j)')  BY DEF Open
      <4>2. i \in Group(r, i)  BY <1>1 DEF Group
      <4>3. CASE n = id
        <5>1. nodes'[n].unit = i  BY <4>3, <2>3
        <5>2. ~ (Units(r)[i].group # 0 /\ \E j \in Group(r, i) : ~ (j <= i))
          <6>1. barrier \subseteq Ids  BY DEF PlanInv, RefsOK
          <6>2. barrier' # barrier  BY <6>1, <4>3, <3>7, <2>3
          <6> QED  BY <6>2, <2>13
        <5>3. ~Open(r, i)'  BY <5>2, <4>2, <2>12
        <5> QED  BY <5>1, <5>3, <4>1
      <4>4. CASE n # id
        <5>0. n \in UnitsOf(r)  BY <4>4, <3>2, <2>2
        <5>1. nodes'[n].unit = nodes[n].unit  BY <5>0, <1>1, <2>3
        <5>2. CASE n \in barrier
          <6>1. ~Open(r, nodes[n].unit)  BY <5>2, <1>1 DEF WalkingOK
          <6>2. \A j : j = nodes[n].unit => ~Open(r, j)'  BY <6>1, <2>12
          <6> QED  BY <6>2, <5>1, <4>1
        <5>3. CASE n \notin barrier
          <6>1. /\ Units(r)[i].group # 0 /\ \A j \in Group(r, i) : j <= i
                /\ nodes[n].unit \in Group(r, i)
            BY <5>3, <4>4, <2>13
          <6>2. \A j : j = nodes[n].unit => ~Open(r, j)'  BY <6>1, <2>12
          <6> QED  BY <6>2, <5>1, <4>1
        <5> QED  BY <5>2, <5>3
      <4> QED  BY <4>3, <4>4
    <3> QED  BY <3>1, <3>2, <3>4, <3>5, <3>6, <3>7 DEF WalkingOK
  <2> QED  BY <2>2, <2>11, <2>14, <1>0 DEF OrderInv
<1> QED  BY <1>2, <1>3 DEF Unit, DepsOf
----------------------------------------------------------------------------
(* Leaving a recipe: its leaves are above all its units.                     *)
LEMMA LeaveOrder ==
  ASSUME PlanInv, SliceInv, ProbeInv, OrderInv, NEW r \in Name, LeaveRecipe(r)
  PROVE  OrderInv'
<1>0. /\ UNCHANGED <<ws, reachable, nodes>> /\ stage = "walk" /\ r = order[at] /\ stage' # "walk"
      /\ todo = {} /\ leaves' = With(leaves, r, LeavesOf(r))
  BY DEF LeaveRecipe, source, graph
<1>1. WalkingOK(r) /\ WalkedUpTo(r) /\ r \notin DOMAIN leaves
  BY <1>0, WalkedName DEF OrderInv, PlanInv, WalkOK
<1>2. DeclaredCoarseDeps(r) \subseteq DOMAIN leaves  BY <1>0, EdgesWalked
<1> DEFINE L == LeavesOf(r)
<1>3. /\ DOMAIN leaves' = DOMAIN leaves \cup {r} /\ leaves'[r] = L
      /\ \A s \in DOMAIN leaves : leaves'[s] = leaves[s]
  BY <1>0, <1>1 DEF With
<1>4. UnitsOf(r) \subseteq Below(barrier)
  <2>1. \A i : ~Open(r, i)  BY <1>0 DEF Open
  <2> QED  BY <2>1, <1>1 DEF WalkingOK
<1>5. /\ UnitsOf(r) \subseteq Below(L)
      /\ \A d \in DeclaredCoarseDeps(r) : Below(leaves[d]) \subseteq Below(L)
      /\ \A l \in L : /\ nodes[l].key = NoKey /\ nodes[l].recipe \in DOMAIN leaves \cup {r}
                      /\ UnitsOf(nodes[l].recipe) \subseteq Below(L)
  <2>1. CASE barrier = {}
    <3>1. L = CrossDeps(r) /\ UnitsOf(r) = {}  BY <2>1, <1>4 DEF LeavesOf, Below
    <3>2. \A d \in DeclaredCoarseDeps(r) : leaves[d] \subseteq L
      BY <3>1, <1>2 DEF CrossDeps
    <3>3. \A d \in DeclaredCoarseDeps(r) : Below(leaves[d]) \subseteq Below(L)
      BY <3>2 DEF Below
    <3>4. ASSUME NEW l \in L
          PROVE  /\ nodes[l].key = NoKey /\ nodes[l].recipe \in DOMAIN leaves
                 /\ UnitsOf(nodes[l].recipe) \subseteq Below(L)
      <4>1. PICK d \in DeclaredCoarseDeps(r) \cap DOMAIN leaves : l \in leaves[d]
        BY <3>1, <3>4 DEF CrossDeps
      <4>2. WalkedOK(d)  BY <4>1 DEF OrderInv
      <4> QED  BY <4>1, <4>2, <3>3 DEF WalkedOK
    <3> QED  BY <3>1, <3>3, <3>4
  <2>2. CASE barrier # {}
    <3>1. L = barrier /\ barrier \subseteq UnitsOf(r)  BY <2>2, <1>1 DEF LeavesOf, WalkingOK
    <3>2. ASSUME NEW d \in DeclaredCoarseDeps(r) PROVE Below(leaves[d]) \subseteq Below(L)
      <4>1. PICK b \in barrier : TRUE  BY <2>2
      <4>2. UnitOK(r, b)  BY <4>1, <3>1 DEF OrderInv, UnitsOK
      <4>3. Below(leaves[d]) \subseteq Up(b)  BY <4>2 DEF UnitOK
      <4> QED  BY <4>1, <4>3, <3>1 DEF Below
    <3>3. \A l \in L : nodes[l].key = NoKey /\ nodes[l].recipe = r
      BY <3>1 DEF UnitsOf
    <3> QED  BY <3>1, <3>2, <3>3, <1>4
  <2> QED  BY <2>1, <2>2
<1>6. \A i \in NonProbes(r) : \E n \in UnitsOf(r) : nodes[n].unit = i
  BY <1>0, <1>1 DEF WalkedUpTo, WalkingOK
<1> HIDE DEF L
<1>7. /\ \A n : Up(n)' = Up(n)
      /\ \A s : UnitsOf(s)' = UnitsOf(s) /\ DeclaredCoarseDeps(s)' = DeclaredCoarseDeps(s)
  BY <1>0 DEF Up, UnitsOf, DeclaredCoarseDeps
<1>8. \A S : Below(S)' = Below(S)  BY <1>7 DEF Below
<1>9. \A s \in DOMAIN leaves' : Below(leaves[s])' = Below(leaves'[s])  BY <1>8
<1>10. Wholes'
  <2>1. ASSUME NEW n \in DOMAIN nodes, NEW d \in nodes[n].deps
        PROVE  \/ nodes[d].key # NoKey \/ nodes[d].recipe = nodes[n].recipe
               \/ \E s \in DOMAIN leaves' : d \in leaves'[s] /\ leaves'[s] \subseteq nodes[n].deps
    BY <2>1, <1>3 DEF OrderInv, Wholes
  <2> QED  BY <2>1, <1>0 DEF Wholes
<1>11. UnitsOK'
  <2> SUFFICES ASSUME NEW s \in Name, NEW n \in UnitsOf(s) PROVE UnitOK(s, n)'
    BY <1>7 DEF UnitsOK
  <2>1. UnitOK(s, n)  BY DEF OrderInv, UnitsOK
  <2>2. \A m : PairOK(s, nodes[n].unit, n, Up(n), nodes[m].unit, m)' =
               PairOK(s, nodes[n].unit, n, Up(n), nodes[m].unit, m)
    BY <1>0, <1>7, SameWs, SameGroups DEF PairOK
  <2>3. \A d \in Units(s)[nodes[n].unit].fine : d \in DOMAIN leaves' /\ leaves'[d] \subseteq nodes[n].deps
    BY <2>1, <1>3 DEF UnitOK
  <2>4. \A d \in DeclaredCoarseDeps(s) : d \in DOMAIN leaves' /\ Below(leaves'[d]) \subseteq Up(n)
    BY <2>1, <1>3 DEF UnitOK
  <2>5. nodes[n].unit \in NonProbes(s)
        /\ \A m \in UnitsOf(s) : PairOK(s, nodes[n].unit, n, Up(n), nodes[m].unit, m)
    BY <2>1 DEF UnitOK
  <2> QED  BY <2>2, <2>3, <2>4, <2>5, <1>0, <1>7, <1>9, SameWs DEF UnitOK
<1>12. ASSUME NEW s \in DOMAIN leaves' PROVE WalkedOK(s)'
  <2>1. CASE s = r
    <3>1. \A d \in DeclaredCoarseDeps(r) :
            d \in DOMAIN leaves' /\ Below(leaves'[d]) \subseteq Below(L)
      BY <1>2, <1>3, <1>5
    <3>2. \A l \in L : /\ nodes[l].key = NoKey /\ nodes[l].recipe \in DOMAIN leaves'
                       /\ UnitsOf(nodes[l].recipe) \subseteq Below(L)
      BY <1>3, <1>5
    <3> QED  BY <2>1, <3>1, <3>2, <1>0, <1>3, <1>5, <1>6, <1>7, <1>8, <1>9, SameWs DEF WalkedOK
  <2>2. CASE s # r
    <3>0. s \in DOMAIN leaves /\ leaves'[s] = leaves[s]  BY <2>2, <1>3
    <3>1. WalkedOK(s)  BY <3>0 DEF OrderInv
    <3>2. \A d \in DeclaredCoarseDeps(s) :
            d \in DOMAIN leaves' /\ Below(leaves'[d]) \subseteq Below(leaves'[s])
      BY <3>0, <3>1, <1>3 DEF WalkedOK
    <3>3. \A l \in leaves'[s] : /\ nodes[l].key = NoKey /\ nodes[l].recipe \in DOMAIN leaves'
                                /\ UnitsOf(nodes[l].recipe) \subseteq Below(leaves'[s])
      BY <3>0, <3>1, <1>3 DEF WalkedOK
    <3>4. /\ UnitsOf(s) \subseteq Below(leaves'[s])
          /\ \A i \in NonProbes(s) : \E n \in UnitsOf(s) : nodes[n].unit = i
      BY <3>0, <3>1 DEF WalkedOK
    <3> QED  BY <3>2, <3>3, <3>4, <1>0, <1>7, <1>8, <1>9, SameWs DEF WalkedOK
  <2> QED  BY <2>1, <2>2
<1> QED  BY <1>0, <1>10, <1>11, <1>12 DEF OrderInv

(* Every step of planning keeps the order.                                   *)
LEMMA OrderStep == PlanInv /\ SliceInv /\ ProbeInv /\ OrderInv /\ [Next]_vars => OrderInv'
<1> SUFFICES ASSUME PlanInv, SliceInv, ProbeInv, OrderInv, [Next]_vars PROVE OrderInv'
  OBVIOUS
<1>1. CASE UNCHANGED vars
  <2>0. /\ UNCHANGED <<ws, reachable, order, at, nodes, leaves, stage>>
        /\ UNCHANGED <<keys, probes, todo, probeNode, unitNode, barrier>>
    BY <1>1 DEF vars, source, graph, walk
  <2>1. Wholes' /\ UnitsOK' /\ \A s \in DOMAIN leaves : WalkedOK(s)'  BY <2>0, SameGraph
  <2>2. stage' = "walk" => WalkingOK(order[at])'
    <3>1. \A n : Up(n)' = Up(n)  BY <2>0 DEF Up
    <3>2. \A r : UnitsOf(r)' = UnitsOf(r)  BY <2>0 DEF UnitsOf
    <3>3. \A r, i : Open(r, i)' = Open(r, i)  BY <2>0, SameWs, SameGroups DEF Open
    <3>4. Below(barrier)' = Below(barrier)  BY <2>0, <3>1 DEF Below
    <3>5. ASSUME NEW r, WalkingOK(r) PROVE WalkingOK(r)'
      BY <2>0, <3>1, <3>2, <3>3, <3>4, <3>5, SameGroups DEF WalkingOK
    <3>6. \A r : r = order[at] => (WalkingOK(order[at])' <=> WalkingOK(r)')
      BY <2>0
    <3> QED  BY <2>0, <3>5, <3>6 DEF OrderInv
  <2> QED  BY <2>1, <2>2, <2>0 DEF OrderInv
<1>2. ASSUME Resolve \/ CheckEdges \/ \E r \in Name : Sort(r) PROVE OrderInv'
  <2>0. /\ UNCHANGED <<ws, nodes, leaves, at>> /\ stage' # "walk"
        /\ stage \in {"resolve", "sort", "check"}
    BY <1>2 DEF Resolve, CheckEdges, Sort, source, graph
  <2>1. DOMAIN nodes = {} /\ DOMAIN leaves = {}
    <3>1. at = 1 /\ nodes = <<>> /\ DOMAIN leaves = {order[i] : i \in 1 .. at - 1}
      BY <2>0 DEF SliceInv, RouteOK
    <3> QED  BY <3>1
  <2>2. \A r : UnitsOf(r)' = {}  BY <2>0, <2>1 DEF UnitsOf
  <2> QED  BY <2>0, <2>1, <2>2 DEF OrderInv, Wholes, UnitsOK
<1> QED  BY <1>1, <1>2, EnterOrder, SynthOrder, BodyOrder, UnitOrder, LeaveOrder DEF Next, Wire
----------------------------------------------------------------------------
(* The invariant of a whole plan. *)
PlanOrder == PlanInv /\ SliceInv /\ ProbeInv /\ OrderInv

(* The invariant of planning with its order: the slice, the probes and the   *)
(* order of units, for every workspace.                                      *)
THEOREM PlanOrderInvariance == Spec => []PlanOrder
<1>1. Init => PlanOrder  BY PlanInit, SliceInit, ProbeInit, OrderInit DEF PlanOrder
<1>2. PlanOrder /\ [Next]_vars => PlanOrder'
  BY PlanStep, SliceStep, ProbeStep, OrderStep DEF PlanOrder
<1> QED  BY <1>1, <1>2, PTL DEF Spec

(* A finished plan has walked every recipe of the slice. *)
LEMMA Finished ==
  ASSUME PlanOrder, stage = "done"
  PROVE  /\ DOMAIN leaves = reachable /\ reachable \subseteq Name
         /\ reachable \subseteq ClosureOf(ws.targets) /\ ~Dangling
         /\ \A r \in reachable : WalkedOK(r) /\ \A n \in UnitsOf(r) : UnitOK(r, n)
         /\ \A r \in reachable : \A n \in UnitsOf(r) : n \in Ids
<1>1. /\ at = Len(order) + 1 /\ Placed = reachable /\ ~Dangling
      /\ DOMAIN leaves = {order[i] : i \in 1 .. at - 1}
      /\ order \in Seq(Name)
  BY DEF PlanOrder, SliceInv, RouteOK, OrderOK
<1>2. DOMAIN order = 1 .. Len(order) /\ Len(order) \in Nat  BY <1>1, LenProperties
<1>3. 1 .. at - 1 = DOMAIN order  BY <1>1, <1>2
<1>4. DOMAIN leaves = reachable  BY <1>1, <1>3 DEF Placed
<1>5. reachable \subseteq Name
  <2>1. \A i \in DOMAIN order : order[i] \in Name  BY <1>1, <1>2, ElementOfSeq
  <2> QED  BY <2>1, <1>1 DEF Placed
<1>6. reachable \subseteq ClosureOf(ws.targets)  BY DEF PlanOrder, SliceInv, SliceOK
<1>7. DOMAIN nodes = Ids  BY LenProperties DEF PlanOrder, PlanInv, GraphOK, Ids
<1> QED  BY <1>1, <1>4, <1>5, <1>6, <1>7 DEF PlanOrder, OrderInv, UnitsOK, UnitsOf

(* The node of a unit is the one its recipe has for it. *)
LEMMA NodeOfUnit ==
  ASSUME PlanOrder, stage = "done", NEW r \in reachable, NEW i \in NonProbes(r)
  PROVE  /\ NodeOf(r, i) \in UnitsOf(r) /\ NodeOf(r, i) \in Ids
         /\ nodes[NodeOf(r, i)].unit = i
         /\ UnitOK(r, NodeOf(r, i))
<1>1. \E n \in DOMAIN nodes : nodes[n].recipe = r /\ nodes[n].unit = i
  <2>1. \E n \in UnitsOf(r) : nodes[n].unit = i  BY Finished DEF WalkedOK
  <2> QED  BY <2>1 DEF UnitsOf
<1> DEFINE n == NodeOf(r, i)
<1>2. n \in DOMAIN nodes /\ nodes[n].recipe = r /\ nodes[n].unit = i
  BY <1>1 DEF NodeOf
<1> HIDE DEF n
<1>3. nodes[n].key = NoKey
  BY <1>2 DEF PlanOrder, ProbeInv, NodesMinted
<1>4. n \in UnitsOf(r)  BY <1>2, <1>3 DEF UnitsOf
<1> QED  BY <1>2, <1>4, Finished DEF n

(* What waits for the leaves of everything a recipe requires waits for all   *)
(* the units of everything it requires, however indirectly.                  *)
LEMMA RequiredBelow ==
  ASSUME PlanOrder, stage = "done", NEW r \in reachable, NEW B,
         \A d \in DeclaredCoarseDeps(r) : Below(leaves[d]) \subseteq B
  PROVE  \A d \in RequiredBy(r) \cap reachable :
           Below(leaves[d]) \subseteq B /\ UnitsOf(d) \subseteq B
<1> DEFINE step == [s \in ws.names |-> ws.recipe[s].requires]
           C == ClosureOf(ws.targets)
           X == {s \in C : s \in reachable => Below(leaves[s]) \subseteq B}
<1>1. /\ ws \in Workspaces /\ ~UnknownRecipe /\ r \in C
      /\ \A s \in C : \A d \in reachable \cap Edges(s) : s \in reachable
  BY Finished DEF PlanOrder, PlanInv, SliceInv, SliceOK
<1>2. C \subseteq ws.names /\ \A s \in C : Edges(s) \subseteq C
  <2>1. ws.targets \subseteq ws.names  BY <1>1 DEF UnknownRecipe
  <2> QED  BY <2>1, <1>1, ClosureFacts
<1>3. IsFiniteSet(DOMAIN step)
  <2>1. ws.names \subseteq Name  BY <1>1, WorkspacesAssumption DEF WorkspaceRecord
  <2>2. IsFiniteSet(ws.names)  BY <2>1, FiniteAssumption, FS_Subset
  <2> QED  BY <2>2
<1>4. \A s \in C : step[s] = ws.recipe[s].requires /\ step[s] \subseteq Edges(s)
  BY <1>2 DEF Edges
<1>5. RequiredBy(r) = ReachFrom(step, ws.recipe[r].requires)  BY DEF RequiredBy
<1>6. ws.recipe[r].requires \subseteq X
  <2>1. ws.recipe[r].requires \subseteq C  BY <1>1, <1>2, <1>4
  <2> QED  BY <2>1 DEF DeclaredCoarseDeps
<1>7. \A s \in X : step[s] \subseteq X
  <2> SUFFICES ASSUME NEW s \in X, NEW d \in step[s] PROVE d \in X
    OBVIOUS
  <2>1. s \in C /\ d \in Edges(s) /\ d \in C /\ d \in ws.recipe[s].requires
    BY <1>2, <1>4
  <2>2. ASSUME d \in reachable PROVE Below(leaves[d]) \subseteq B
    <3>1. s \in reachable  BY <2>1, <2>2, <1>1
    <3>2. d \in DeclaredCoarseDeps(s)  BY <2>1, <2>2 DEF DeclaredCoarseDeps
    <3>3. Below(leaves[d]) \subseteq Below(leaves[s])  BY <3>1, <3>2, Finished DEF WalkedOK
    <3> QED  BY <3>1, <3>3
  <2> QED  BY <2>1, <2>2
<1> HIDE DEF step, X
<1>8. RequiredBy(r) \subseteq X  BY <1>3, <1>5, <1>6, <1>7, ReachLeast
<1>9. ASSUME NEW d \in RequiredBy(r) \cap reachable
      PROVE  Below(leaves[d]) \subseteq B /\ UnitsOf(d) \subseteq B
  <2>1. Below(leaves[d]) \subseteq B  BY <1>8 DEF X
  <2>2. UnitsOf(d) \subseteq Below(leaves[d])  BY Finished DEF WalkedOK
  <2> QED  BY <2>1, <2>2
<1> QED  BY <1>9

(* A unit waits for the recipes its recipe requires,                         *)
LEMMA KeepsRequired == ASSUME PlanOrder PROVE WaitsForRequired
<1> SUFFICES ASSUME stage = "done", NEW r \in reachable, NEW n \in UnitsOf(r)
             PROVE  \A d \in RequiredBy(r) \cap reachable : UnitsOf(d) \subseteq Up(n)
  BY DEF WaitsForRequired
<1>1. \A d \in DeclaredCoarseDeps(r) : Below(leaves[d]) \subseteq Up(n)
  BY Finished DEF UnitOK
<1> QED  BY <1>1, RequiredBelow

(* and for the whole of each.                                                *)
LEMMA KeepsWhole == ASSUME PlanOrder PROVE WaitsForWhole
<1> SUFFICES ASSUME stage = "done", NEW n \in DOMAIN nodes, NEW d \in nodes[n].deps,
                    nodes[d].key = NoKey, nodes[d].recipe # nodes[n].recipe
             PROVE  UnitsOf(nodes[d].recipe) \subseteq Up(n)
  BY DEF WaitsForWhole
<1>1. PICK s \in DOMAIN leaves : d \in leaves[s] /\ leaves[s] \subseteq nodes[n].deps
  BY DEF PlanOrder, OrderInv, Wholes
<1>2. UnitsOf(nodes[d].recipe) \subseteq Below(leaves[s])
  BY <1>1 DEF PlanOrder, OrderInv, WalkedOK
<1>3. n \in Ids  BY LenProperties DEF PlanOrder, PlanInv, GraphOK, Ids
<1>4. Below(nodes[n].deps) \subseteq Up(n)  BY <1>3, UpNow DEF PlanOrder
<1> QED  BY <1>1, <1>2, <1>4 DEF Below

(* A body probe declares no file, so a unit that does is not one.            *)
LEMMA UnitsDeclare ==
  ASSUME PlanOrder, NEW r \in Name, NEW i \in DOMAIN Units(r), NEW p,
         p \in Units(r)[i].outs \/ p \in Units(r)[i].ins \/ p \in Units(r)[i].fine
  PROVE  i \in NonProbes(r)
  BY ProbesDeclareNothing DEF NonProbes, Units, PlanOrder, PlanInv

(* Units of a recipe run in the order they are written,                      *)
LEMMA KeepsWritten == ASSUME PlanOrder PROVE AsWritten
<1> SUFFICES ASSUME stage = "done", NEW r \in reachable, NEW j \in NonProbes(r)
             PROVE  /\ \A i \in NonProbes(r) : i < j /\ Over(r, i, j) => NodeOf(r, i) \in Up(NodeOf(r, j))
                    /\ \A p \in Units(r)[j].after : \A i \in Producers(r, p) :
                         NodeOf(r, i) \in Up(NodeOf(r, j))
                    /\ \A d \in Units(r)[j].fine : \A e \in {d} \cup (RequiredBy(d) \cap reachable) :
                         UnitsOf(e) \subseteq Up(NodeOf(r, j))
  BY DEF AsWritten
<1> DEFINE n == NodeOf(r, j)
<1>1. UnitOK(r, n) /\ nodes[n].unit = j /\ n \in Ids  BY NodeOfUnit
<1> HIDE DEF n
<1>2. ASSUME NEW i \in NonProbes(r)
      PROVE  PairOK(r, j, n, Up(n), i, NodeOf(r, i))
  <2>1. NodeOf(r, i) \in UnitsOf(r) /\ nodes[NodeOf(r, i)].unit = i  BY NodeOfUnit
  <2> QED  BY <2>1, <1>1 DEF UnitOK
<1>3. \A i \in NonProbes(r) : i < j /\ Over(r, i, j) => NodeOf(r, i) \in Up(n)
  BY <1>2 DEF PairOK
<1>4. ASSUME NEW p \in Units(r)[j].after, NEW i \in Producers(r, p) PROVE NodeOf(r, i) \in Up(n)
  <2>1. i \in DOMAIN Units(r) /\ p \in Units(r)[i].outs /\ r \in Name
    BY Finished DEF Producers
  <2>2. i \in NonProbes(r)  BY <2>1, UnitsDeclare
  <2> QED  BY <2>2, <1>2, <1>4 DEF PairOK
<1>5. ASSUME NEW d \in Units(r)[j].fine
      PROVE  /\ UnitsOf(d) \subseteq Up(n)
             /\ \A e \in RequiredBy(d) \cap reachable : UnitsOf(e) \subseteq Up(n)
  <2>1. d \in reachable /\ leaves[d] \subseteq nodes[n].deps  BY <1>1, Finished DEF UnitOK
  <2>2. Below(leaves[d]) \subseteq Up(n)
    <3>1. Below(nodes[n].deps) \subseteq Up(n)  BY <1>1, UpNow DEF PlanOrder
    <3> QED  BY <3>1, <2>1 DEF Below
  <2>3. WalkedOK(d)  BY <2>1, Finished
  <2>4. UnitsOf(d) \subseteq Up(n)  BY <2>2, <2>3 DEF WalkedOK
  <2>5. \A e \in DeclaredCoarseDeps(d) : Below(leaves[e]) \subseteq Up(n)
    BY <2>2, <2>3 DEF WalkedOK
  <2> QED  BY <2>1, <2>4, <2>5, RequiredBelow
<1> QED  BY <1>3, <1>4, <1>5 DEF n

(* but for those of one group, which run together.                           *)
LEMMA KeepsGroups == ASSUME PlanOrder PROVE GroupsRunTogether
<1> SUFFICES ASSUME stage = "done", NEW r \in reachable, NEW i \in NonProbes(r),
                    NEW j \in NonProbes(r), i # j, Units(r)[i].group # 0, i \in Group(r, j),
                    Orderless(r, j)
             PROVE  NodeOf(r, i) \notin Up(NodeOf(r, j))
  BY DEF GroupsRunTogether
<1>1. /\ UnitOK(r, NodeOf(r, j)) /\ nodes[NodeOf(r, j)].unit = j
      /\ NodeOf(r, i) \in UnitsOf(r) /\ nodes[NodeOf(r, i)].unit = i
  BY NodeOfUnit
<1>2. PairOK(r, j, NodeOf(r, j), Up(NodeOf(r, j)), i, NodeOf(r, i))  BY <1>1 DEF UnitOK
<1>3. NodeOf(r, i) # NodeOf(r, j)  BY <1>1
<1>4. Units(r)[j].group # 0  BY DEF Group
<1> QED  BY <1>2, <1>3, <1>4 DEF PairOK

(* The order of an accepted plan is the written one, and inside a step group *)
(* no more, whatever the workspace.                                          *)
THEOREM OrderKeptCorrect == BuildSpec => []OrderKept
<1>1. PlanOrder => OrderKept
  BY KeepsRequired, KeepsWhole, KeepsWritten, KeepsGroups DEF OrderKept
<1> QED  BY <1>1, PlansByTheLaw, PlanOrderInvariance, PTL
----------------------------------------------------------------------------
(* A probe has a node exactly when a recipe of its Cookfile demands it, and  *)
(* then one.                                                                 *)
LEMMA KeepsOnce == ASSUME PlanOrder PROVE ProbesOnce
<1> SUFFICES ASSUME stage = "done", NEW f \in File, NEW k \in Key
             PROVE  Cardinality({n \in DOMAIN nodes :
                                   nodes[n].key = k /\ ws.recipe[nodes[n].recipe].file = f})
                      = IF \E r \in reachable :
                             ws.recipe[r].file = f /\ k \in Consumed(r) \cap (Declared(r) \cup BodyKeys(r))
                        THEN 1 ELSE 0
  BY DEF ProbesOnce
<1> DEFINE S == {n \in DOMAIN nodes : nodes[n].key = k /\ ws.recipe[nodes[n].recipe].file = f}
<1>0. /\ NodesMinted /\ MintedOK /\ DemandsServed /\ Attributed /\ k # NoKey
      /\ DOMAIN leaves = reachable
      /\ \A x \in DOMAIN minted : minted[x] \in DOMAIN nodes
  <2>1. DOMAIN nodes = Ids  BY LenProperties DEF PlanOrder, PlanInv, GraphOK, Ids
  <2> QED  BY <2>1, Finished, NoKeyAssumption DEF PlanOrder, ProbeInv, PlanInv, RefsOK
<1>1. ASSUME NEW n \in S
      PROVE  /\ <<f, k>> \in DOMAIN minted /\ n = minted[<<f, k>>]
             /\ \E r \in reachable :
                  ws.recipe[r].file = f /\ k \in Consumed(r) \cap (Declared(r) \cup BodyKeys(r))
  <2> DEFINE r == nodes[n].recipe
  <2>1. Id(r, k) = <<f, k>>  BY DEF Id
  <2>2. Id(r, k) \in DOMAIN minted /\ minted[Id(r, k)] = n /\ k \in Consumed(r) \cap Known(r)
    BY <1>0 DEF NodesMinted
  <2>3. r \in reachable  BY <1>0 DEF Attributed, Current
  <2> QED  BY <2>1, <2>2, <2>3 DEF Known
<1>2. ASSUME <<f, k>> \in DOMAIN minted PROVE minted[<<f, k>>] \in S
  <2>1. PICK g \in File, l \in Key :
          /\ <<f, k>> = <<g, l>> /\ nodes[minted[<<f, k>>]].key = l
          /\ ws.recipe[nodes[minted[<<f, k>>]].recipe].file = g
    BY <1>0, <1>2 DEF MintedOK
  <2>2. f = g /\ k = l  BY <2>1
  <2> QED  BY <2>1, <2>2, <1>0, <1>2
<1>3. ASSUME NEW r \in reachable, ws.recipe[r].file = f,
             k \in Consumed(r) \cap (Declared(r) \cup BodyKeys(r))
      PROVE  <<f, k>> \in DOMAIN minted
  <2>1. Id(r, k) \in DOMAIN minted  BY <1>0, <1>3 DEF DemandsServed, Known
  <2> QED  BY <2>1, <1>3 DEF Id
<1> HIDE DEF S
<1>4. CASE <<f, k>> \in DOMAIN minted
  <2>1. S = {minted[<<f, k>>]}  BY <1>1, <1>2, <1>4
  <2>2. Cardinality(S) = 1  BY <2>1, FS_Singleton
  <2>3. \E r \in reachable :
          ws.recipe[r].file = f /\ k \in Consumed(r) \cap (Declared(r) \cup BodyKeys(r))
    BY <1>1, <1>2, <1>4
  <2> QED  BY <2>2, <2>3 DEF S
<1>5. CASE <<f, k>> \notin DOMAIN minted
  <2>1. S = {}  BY <1>1, <1>5
  <2>2. Cardinality(S) = 0  BY <2>1, FS_EmptySet
  <2>3. ~ \E r \in reachable :
          ws.recipe[r].file = f /\ k \in Consumed(r) \cap (Declared(r) \cup BodyKeys(r))
    BY <1>3, <1>5
  <2> QED  BY <2>2, <2>3 DEF S
<1> QED  BY <1>4, <1>5

(* However many recipes demand a probe, in whatever order they are walked,   *)
(* it has one node per Cookfile, and whatever reads its value waits for it.  *)
THEOREM ProbesPlacedCorrect == BuildSpec => []ProbesPlaced
<1>1. PlanOrder => ProbesPlaced
  BY KeepsOnce DEF PlanOrder, ProbeInv, ProbesPlaced
<1> QED  BY <1>1, PlansByTheLaw, PlanOrderInvariance, PTL
----------------------------------------------------------------------------
(* The last gate before the plan saw no read that nothing orders.            *)
GateOK ==
  /\ gate \in {"collisions", "plan", "run"} => ~ReadsUnordered
  /\ gate = "run" => stage = "done"

(* No gate is passed at first.                                               *)
LEMMA GateInit == BuildInit => GateOK
  BY DEF BuildInit, GateOK

(* What the gate looks at does not change after it.                          *)
LEMMA SameReads ==
  ASSUME UNCHANGED source PROVE ReadsUnordered' = ReadsUnordered
<1>1. ws' = ws /\ reachable' = reachable  BY DEF source
<1>3. \A r, s : RequiresTransitively(r, s)' = RequiresTransitively(r, s)
  BY <1>1 DEF RequiresTransitively, Orders, DeclaredCoarseDeps, FineOf, Units
<1>4. \A r, s : SameDir(r, s)' = SameDir(r, s)  BY <1>1 DEF SameDir
<1>6. \A p : Writers(reachable, p)' = Writers(reachable, p) /\ Readers(reachable, p)' = Readers(reachable, p)
  BY <1>1 DEF Writers, Readers, Units
<1>7. Literal' = Literal  BY DEF Literal, Terminal
<1> QED  BY <1>3, <1>4, <1>6, <1>7 DEF ReadsUnordered

(* Planning leaves the workspace as it was read.                             *)
LEMMA WireKeepsSource == ASSUME Wire PROVE UNCHANGED source
  BY DEF Wire, CheckEdges, EnterRecipe, SynthProbe, BodyProbe, Unit, LeaveRecipe

(* No step forgets what the gate saw.                                        *)
LEMMA GateStep == GateOK /\ [BuildNext]_all => GateOK'
<1> SUFFICES ASSUME GateOK, [BuildNext]_all PROVE GateOK'
  OBVIOUS
<1>1. CASE UNCHANGED all
  <2>1. UNCHANGED source /\ gate' = gate /\ stage' = stage  BY <1>1 DEF all, vars, gates
  <2> QED  BY <2>1, SameReads DEF GateOK
<1>2. CASE RejectDuplicateOutputs
  <2>1. gate' \in {"duplicate", "globs"}  BY <1>2 DEF RejectDuplicateOutputs
  <2> QED  BY <2>1 DEF GateOK
<1>3. CASE CheckGlobbedOutputs
  <2>1. gate' \in {"globbed", "sort"}  BY <1>3 DEF CheckGlobbedOutputs
  <2> QED  BY <2>1 DEF GateOK
<1>4. CASE CheckLiteralReads
  <2>1. /\ UNCHANGED source
        /\ gate' = IF ReadsUnordered THEN "readAfterWrite" ELSE "collisions"
    BY <1>4 DEF CheckLiteralReads, vars
  <2> QED  BY <2>1, SameReads DEF GateOK
<1>5. CASE DetectOutputCollisions
  <2>1. UNCHANGED source /\ gate = "collisions" /\ gate' \in {"collision", "plan"}
    BY <1>5 DEF DetectOutputCollisions, vars
  <2> QED  BY <2>1, SameReads DEF GateOK
<1>6. CASE Planning
  <2>a. gate' = gate  BY <1>6 DEF Planning, gates
  <2>b. gate = "globs" \/ gate = "sort" \/ (gate = "plan" /\ Wire)  BY <1>6, Zenon DEF Planning
  <2>1. gate' = gate /\ (gate \in {"globs", "sort"} \/ (gate = "plan" /\ Wire))
    BY <2>a, <2>b
  <2>2. CASE gate \in {"globs", "sort"}  BY <2>1, <2>2 DEF GateOK
  <2>3. CASE gate = "plan" /\ Wire  BY <2>1, <2>3, WireKeepsSource, SameReads DEF GateOK
  <2> QED  BY <2>1, <2>2, <2>3
<1>7. CASE Lower
  <2>1. UNCHANGED source /\ stage' = stage /\ stage = "done" /\ gate = "plan" /\ gate' = "run"
    BY <1>7 DEF Lower, vars
  <2> QED  BY <2>1, SameReads DEF GateOK
<1> QED  BY <1>1, <1>2, <1>3, <1>4, <1>5, <1>6, <1>7 DEF BuildNext

(* Along the edges the gate follows, what is below a recipe's leaves grows.  *)
LEMMA OrdersBelow ==
  ASSUME PlanOrder, stage = "done", NEW t \in reachable,
         NEW s \in ReachFrom([x \in reachable |-> Orders(x)], {t})
  PROVE  s \in reachable /\ Below(leaves[s]) \subseteq Below(leaves[t])
<1> DEFINE step == [x \in reachable |-> Orders(x)]
           X == {u \in reachable : Below(leaves[u]) \subseteq Below(leaves[t])}
<1>1. IsFiniteSet(DOMAIN step)
  <2>1. IsFiniteSet(reachable)  BY Finished, FiniteAssumption, FS_Subset
  <2> QED  BY <2>1
<1>2. \A x \in reachable : step[x] = Orders(x)  OBVIOUS
<1>3. {t} \subseteq X  OBVIOUS
<1>4. \A x \in X : step[x] \subseteq X
  <2> SUFFICES ASSUME NEW x \in X, NEW d \in Orders(x) PROVE d \in X
    BY <1>2
  <2>0. d \in reachable /\ WalkedOK(x)  BY Finished DEF Orders
  <2>1. CASE d \in DeclaredCoarseDeps(x)
    BY <2>0, <2>1 DEF WalkedOK
  <2>2. CASE d \in FineOf(x)
    <3>1. PICK i \in DOMAIN Units(x) : d \in Units(x)[i].fine  BY <2>2 DEF FineOf
    <3>2. i \in NonProbes(x)  BY <3>1, Finished, UnitsDeclare
    <3>3. PICK n \in UnitsOf(x) : nodes[n].unit = i  BY <2>0, <3>2 DEF WalkedOK
    <3>4. n \in Ids /\ leaves[d] \subseteq nodes[n].deps  BY <3>1, <3>3, Finished DEF UnitOK
    <3>5. Below(leaves[d]) \subseteq Up(n)
      <4>1. Below(nodes[n].deps) \subseteq Up(n)  BY <3>4, UpNow DEF PlanOrder
      <4> QED  BY <4>1, <3>4 DEF Below
    <3>6. Up(n) \subseteq Below(leaves[x])
      <4>1. n \in Below(leaves[x])  BY <2>0, <3>3 DEF WalkedOK
      <4>2. PICK l \in leaves[x] : n \in Up(l)  BY <4>1 DEF Below
      <4>3. l \in Ids  BY <4>2, Finished DEF PlanOrder, PlanInv, RefsOK
      <4>4. Up(n) \subseteq Up(l)  BY <4>2, <4>3, UpNow DEF PlanOrder
      <4> QED  BY <4>2, <4>4 DEF Below
    <3> QED  BY <3>5, <3>6, <2>0
  <2> QED  BY <2>1, <2>2 DEF Orders
<1> HIDE DEF step, X
<1>5. ReachFrom(step, {t}) \subseteq X  BY <1>1, <1>3, <1>4, ReachLeast
<1> QED  BY <1>5 DEF step, X

(* A path to another recipe starts with an edge. *)
LEMMA FirstEdge ==
  ASSUME PlanOrder, stage = "done", NEW r \in reachable, NEW s,
         RequiresTransitively(r, s), s # r
  PROVE  \E t \in Orders(r) : s \in ReachFrom([x \in reachable |-> Orders(x)], {t})
<1> DEFINE step == [x \in reachable |-> Orders(x)]
           X == {r} \cup UNION {ReachFrom(step, {t}) : t \in Orders(r)}
<1>1. IsFiniteSet(DOMAIN step) /\ DOMAIN step = reachable
  <2>1. IsFiniteSet(reachable)  BY Finished, FiniteAssumption, FS_Subset
  <2> QED  BY <2>1
<1>2. \A x \in reachable : step[x] = Orders(x)  OBVIOUS
<1>3. \A x \in reachable : Orders(x) \subseteq reachable  BY DEF Orders
<1>4. s \in ReachFrom(step, {r})  BY DEF RequiresTransitively
<1> HIDE DEF step
<1>5. ASSUME NEW t \in Orders(r)
      PROVE  /\ t \in ReachFrom(step, {t})
             /\ \A x \in ReachFrom(step, {t}) : step[x] \subseteq ReachFrom(step, {t})
  <2>1. {t} \subseteq DOMAIN step /\ \A x \in DOMAIN step : step[x] \subseteq DOMAIN step
    BY <1>1, <1>2, <1>3
  <2>2. {t} \subseteq ReachFrom(step, {t})  BY <1>1, ReachHas
  <2>3. \A x \in ReachFrom(step, {t}) : step[x] \subseteq ReachFrom(step, {t})
    BY <1>1, <2>1, ReachClosed
  <2> QED  BY <2>2, <2>3
<1>6. {r} \subseteq X /\ \A x \in X : step[x] \subseteq X
  <2>1. ASSUME NEW x \in X, NEW d \in step[x] PROVE d \in X
    <3>1. CASE x = r  BY <3>1, <2>1, <1>2, <1>5
    <3>2. CASE x # r
      <4>1. PICK t \in Orders(r) : x \in ReachFrom(step, {t})  BY <3>2
      <4> QED  BY <4>1, <2>1, <1>5
    <3> QED  BY <3>1, <3>2
  <2> QED  BY <2>1
<1> HIDE DEF X
<1>7. ReachFrom(step, {r}) \subseteq X  BY <1>1, <1>6, ReachLeast
<1> QED  BY <1>4, <1>7 DEF X, step

(* What a recipe orders itself after, however far, is in the closure.        *)
LEMMA OrdersInClosure ==
  ASSUME PlanOrder, stage = "done", NEW S, S \subseteq ws.names, NEW t \in S, t \in reachable
  PROVE  ReachFrom([x \in reachable |-> Orders(x)], {t}) \subseteq ClosureOf(S)
<1> DEFINE step == [x \in reachable |-> Orders(x)]
           X == ClosureOf(S) \cap reachable
<1>0. ws \in Workspaces /\ ~UnknownRecipe  BY DEF PlanOrder, PlanInv, SliceInv, SliceOK
<1>1. IsFiniteSet(DOMAIN step)
  <2>1. IsFiniteSet(reachable)  BY Finished, FiniteAssumption, FS_Subset
  <2> QED  BY <2>1
<1>2. S \subseteq ClosureOf(S) /\ \A r \in ClosureOf(S) : Edges(r) \subseteq ClosureOf(S)
  BY <1>0, ClosureFacts
<1>3. {t} \subseteq X /\ \A x \in X : step[x] \subseteq X
  <2>1. \A x \in X : step[x] = Orders(x)  OBVIOUS
  <2>2. \A x \in X : Orders(x) \subseteq Edges(x) \cap reachable
    BY DEF Orders, Edges, DeclaredCoarseDeps
  <2> QED  BY <2>1, <2>2, <1>2
<1> HIDE DEF step, X
<1>4. ReachFrom(step, {t}) \subseteq X  BY <1>1, <1>3, ReachLeast
<1> QED  BY <1>4 DEF step, X

(* A plan the gates accept orders its reads as stated, unit by unit.         *)
LEMMA KeepsReads == ASSUME PlanOrder, GateOK PROVE ReadsAfterWrites
<1> SUFFICES ASSUME gate = "run", NEW p \in Literal,
                    NEW w \in Writers(reachable, p), NEW x \in Readers(reachable, p),
                    w[1] # x[1], SameDir(w[1], x[1])
             PROVE  \/ NodeOf(w[1], w[2]) \in Up(NodeOf(x[1], x[2]))
                    \/ \E k \in NonProbes(x[1]) :
                         /\ NodeOf(x[1], k) \notin Up(NodeOf(x[1], x[2]))
                         /\ w[1] \in ClosureOf(Units(x[1])[k].fine)
  BY DEF ReadsAfterWrites
<1> DEFINE r == x[1]
           s == w[1]
           n == NodeOf(r, x[2])
           m == NodeOf(s, w[2])
<1>0. stage = "done" /\ RequiresTransitively(r, s)  BY DEF GateOK, ReadsUnordered
<1>1. r \in reachable /\ s \in reachable /\ x[2] \in NonProbes(r) /\ w[2] \in NonProbes(s)
  <2>1. r \in reachable /\ x[2] \in DOMAIN Units(r) /\ p \in Units(r)[x[2]].ins
    BY DEF Readers
  <2>2. s \in reachable /\ w[2] \in DOMAIN Units(s) /\ p \in Units(s)[w[2]].outs
    BY DEF Writers
  <2> QED  BY <2>1, <2>2, <1>0, Finished, UnitsDeclare
<1>2. UnitOK(r, n) /\ n \in Ids /\ m \in UnitsOf(s)
  BY <1>0, <1>1, NodeOfUnit
<1> HIDE DEF r, s, n, m
<1>3. PICK t \in Orders(r) : s \in ReachFrom([y \in reachable |-> Orders(y)], {t})
  BY <1>0, <1>1, FirstEdge DEF r, s
<1>4. t \in reachable  BY <1>3 DEF Orders
<1>5. m \in Below(leaves[t])
  <2>1. Below(leaves[s]) \subseteq Below(leaves[t])  BY <1>0, <1>3, <1>4, OrdersBelow
  <2>2. UnitsOf(s) \subseteq Below(leaves[s])  BY <1>0, <1>1, Finished DEF WalkedOK
  <2> QED  BY <2>1, <2>2, <1>2
<1>6. CASE t \in DeclaredCoarseDeps(r)
  <2>1. Below(leaves[t]) \subseteq Up(n)  BY <1>2, <1>6 DEF UnitOK
  <2> QED  BY <2>1, <1>5 DEF n, m, r, s
<1>7. CASE t \in FineOf(r)
  <2>1. PICK k \in DOMAIN Units(r) : t \in Units(r)[k].fine  BY <1>7 DEF FineOf
  <2>2. k \in NonProbes(r) /\ r \in Name  BY <2>1, <1>0, <1>1, Finished, UnitsDeclare
  <2>3. Units(r)[k].fine \subseteq ws.names
    <3>1. ws \in Workspaces /\ ~UnknownRecipe
      BY <1>0 DEF PlanOrder, PlanInv, SliceInv, SliceOK
    <3>2. r \in ws.names
      <4>1. ws.targets \subseteq ws.names  BY <3>1 DEF UnknownRecipe
      <4>2. ClosureOf(ws.targets) \subseteq ws.names  BY <3>1, <4>1, ClosureFacts
      <4> QED  BY <4>2, <1>0, <1>1, Finished
    <3>3. Edges(r) \subseteq ws.names  BY <3>1, <3>2 DEF UnknownRecipe
    <3> QED  BY <3>3, <2>1 DEF Edges, FineOf
  <2>4. s \in ClosureOf(Units(r)[k].fine)
    BY <2>1, <2>3, <1>0, <1>3, <1>4, OrdersInClosure
  <2>5. CASE NodeOf(r, k) \notin Up(n)
    BY <2>2, <2>4, <2>5 DEF n, r, s
  <2>6. CASE NodeOf(r, k) \in Up(n)
    <3> DEFINE l == NodeOf(r, k)
    <3>1. UnitOK(r, l) /\ nodes[l].unit = k /\ l \in Ids  BY <1>0, <1>1, <2>2, NodeOfUnit
    <3> HIDE DEF l
    <3>2. leaves[t] \subseteq nodes[l].deps  BY <3>1, <2>1 DEF UnitOK
    <3>3. Below(nodes[l].deps) \subseteq Up(l)  BY <3>1, UpNow DEF PlanOrder
    <3>4. m \in Up(l)  BY <3>2, <3>3, <1>5 DEF Below
    <3>5. Up(l) \subseteq Up(n)  BY <2>6, <1>2, UpNow DEF PlanOrder, l
    <3> QED  BY <3>4, <3>5 DEF n, m, r, s
  <2> QED  BY <2>5, <2>6
<1> QED  BY <1>3, <1>6, <1>7 DEF Orders

(* In a plan the gates accepted the unit that reads a path of another recipe *)
(* waits for the unit that writes it, but for a writer only another unit's   *)
(* fine reference leads to.                                                  *)
THEOREM ReadsAfterWritesCorrect == BuildSpec => []ReadsAfterWrites
<1>1. BuildSpec => []GateOK
  BY GateInit, GateStep, PTL DEF BuildSpec
<1> QED  BY <1>1, KeepsReads, PlansByTheLaw, PlanOrderInvariance, PTL
=============================================================================
