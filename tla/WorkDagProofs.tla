--------------------------- MODULE WorkDagProofs ---------------------------
(***************************************************************************)
(* Proofs about the work DAG for every number of nodes and threads.  The   *)
(* idea: the counter of n counts its unfinished dependencies, where a      *)
(* dependency is unfinished until it has been completed and the thread     *)
(* that completes it has reached n.                                        *)
(***************************************************************************)
EXTENDS WorkDag, FiniteSetTheorems, TLAPS

Undone(n) ==
  {d \in deps[n] : ~completed[d] \/ \E t \in Threads : call[t].node = d /\ n \in call[t].todo}

(* Only nodes that exist have dependencies, and they point to earlier nodes. *)
Backward ==
  \A n \in Node : \A d \in deps[n] : n < len /\ d < n

(* What a thread in complete() still has to do. *)
CallOK(t) ==
  \/ call[t] = Idle
  \/ /\ call[t].node \in Node /\ completed[call[t].node]
     /\ call[t].todo \subseteq Dependents(call[t].node)

CallsOK == \A t \in Threads : CallOK(t)

OneCaller ==
  \A t, u \in Threads : call[t].node = call[u].node /\ call[t].node # NoNode => t = u

Counted == \A n \in Node : remaining[n] = Cardinality(Undone(n))

Building ==
  phase = "build" =>
    /\ \A n \in Node : ~completed[n] /\ released[n] = 0
    /\ \A t \in Threads : call[t] = Idle

ReleasedWhenDone ==
  phase = "run" =>
    \A n \in Node : released[n] = IF n < len /\ Undone(n) = {} THEN 1 ELSE 0

Shape == TypeOK /\ Backward /\ CallsOK /\ OneCaller /\ Building
IInv == Shape /\ Counted /\ ReleasedWhenDone
----------------------------------------------------------------------------
(* Facts about the constants and about counting. *)

LEMMA NodeFinite == IsFiniteSet(Node)
BY SizeAssumption, FS_Interval DEF Node

LEMMA NodeFacts ==
  /\ MaxNodes \in Nat /\ MaxNodes > 0 /\ Width \in Nat /\ Width > MaxNodes
  /\ Node \subseteq Nat /\ NoNode \notin Node
  /\ \A n \in Node : n < MaxNodes
BY SizeAssumption, NoNodeAssumption DEF Node

(* A set of nodes is finite and has at most MaxNodes members. *)
LEMMA CountNodes ==
  ASSUME NEW S \in SUBSET Node
  PROVE  /\ IsFiniteSet(S) /\ Cardinality(S) \in 0 .. Width - 1
         /\ Cardinality(S) = 0 <=> S = {}
<1>1. IsFiniteSet(0 .. MaxNodes - 1) /\ Cardinality(0 .. MaxNodes - 1) = MaxNodes
  BY NodeFacts, FS_Interval
<1>2. IsFiniteSet(S) /\ Cardinality(S) <= MaxNodes
  BY <1>1, FS_Subset DEF Node
<1>3. Cardinality(S) \in Nat
  BY <1>2, FS_CardinalityType
<1>4. Cardinality(S) = 0 <=> S = {}
  BY <1>2, FS_EmptySet
<1>5. Cardinality(S) \in 0 .. Width - 1
  BY <1>2, <1>3, NodeFacts
<1>. QED
  BY <1>2, <1>4, <1>5

(* The unfinished dependencies of n are dependencies of n. *)
LEMMA UndoneIsDeps ==
  ASSUME TypeOK, NEW n \in Node
  PROVE  Undone(n) \subseteq deps[n] /\ Undone(n) \in SUBSET Node
BY DEF TypeOK, Undone

(* A decrement that takes one element away from the unfinished dependencies. *)
LEMMA OneLess ==
  ASSUME NEW S \in SUBSET Node, NEW d \in S
  PROVE  Cardinality(S) > 0 /\ Cardinality(S \ {d}) = Cardinality(S) - 1
BY CountNodes, FS_RemoveElement
----------------------------------------------------------------------------
LEMMA InitInv == Init => IInv
<1>. SUFFICES ASSUME Init PROVE IInv
  OBVIOUS
<1>1. Shape
  BY NodeFacts DEF Init, Shape, TypeOK, Backward, CallsOK, CallOK, OneCaller, Building, Idle
<1>2. \A n \in Node : Undone(n) = {}
  BY DEF Init, Undone
<1>3. Counted
  BY <1>2, FS_EmptySet DEF Init, Counted
<1>4. ReleasedWhenDone
  BY DEF Init, ReleasedWhenDone
<1>. QED
  BY <1>1, <1>3, <1>4 DEF IInv

(* While the graph is built nothing has been completed. *)
LEMMA UndoneWhileBuilding ==
  ASSUME TypeOK, Building, phase = "build", NEW n \in Node
  PROVE  Undone(n) = deps[n]
BY DEF TypeOK, Building, Undone

LEMMA AddNodeInv ==
  ASSUME IInv, NEW ds \in SUBSET Node, AddNode(ds)
  PROVE  IInv'
<1>. USE DEF IInv, Shape
<1>1. len \in Node /\ ds \subseteq 0 .. len - 1 /\ phase = "build" /\ phase' = "build"
  BY NodeFacts DEF AddNode, Accepts, TypeOK, Node
<1>2. Cardinality(ds) \in 0 .. Width - 1
  BY CountNodes
<1>3. TypeOK'
  BY <1>1, <1>2, NodeFacts DEF AddNode, TypeOK
<1>4. Backward'
  <2>. SUFFICES ASSUME NEW n \in Node, NEW d \in deps'[n] PROVE n < len' /\ d < n
    BY DEF Backward
  <2>1. CASE n = len
    BY <2>1, <1>1, NodeFacts DEF AddNode, TypeOK
  <2>2. CASE n # len
    BY <2>2, <1>1, NodeFacts DEF AddNode, TypeOK, Backward
  <2>. QED
    BY <2>1, <2>2
<1>5. Building' /\ CallsOK' /\ OneCaller'
  BY <1>1 DEF AddNode, Building, CallsOK, CallOK, OneCaller, Idle
<1>6. Counted'
  <2>. SUFFICES ASSUME NEW n \in Node PROVE remaining'[n] = Cardinality(Undone(n)')
    BY DEF Counted
  <2>1. Undone(n)' = deps'[n]
    BY <1>1, <1>3, <1>5 DEF Undone, Building, TypeOK
  <2>2. Undone(n) = deps[n]
    BY <1>1, UndoneWhileBuilding
  <2>. QED
    BY <2>1, <2>2 DEF AddNode, Counted, TypeOK
<1>7. ReleasedWhenDone'
  BY <1>1 DEF ReleasedWhenDone
<1>. QED
  BY <1>3, <1>4, <1>5, <1>6, <1>7

LEMMA StartInv ==
  ASSUME IInv, Start
  PROVE  IInv'
<1>. USE DEF IInv, Shape
<1>1. Shape'
  BY DEF Start, TypeOK, Backward, CallsOK, CallOK, OneCaller, Building, Dependents
<1>2. \A n \in Node : Undone(n)' = Undone(n) /\ Undone(n) = deps[n]
  BY UndoneWhileBuilding DEF Start, Undone
<1>3. Counted'
  BY <1>2 DEF Counted, Start
<1>4. \A n \in Node : remaining[n] = 0 <=> Undone(n) = {}
  BY CountNodes, UndoneIsDeps DEF Counted
<1>5. ReleasedWhenDone'
  BY <1>2, <1>4, NodeFacts DEF Start, InitialReady, ReleasedWhenDone, TypeOK
<1>. QED
  BY <1>1, <1>3, <1>5

LEMMA BeginCompleteInv ==
  ASSUME IInv, NEW t \in Threads, NEW n \in Node, BeginComplete(t, n)
  PROVE  IInv'
<1>. USE DEF IInv, Shape
<1>1. /\ phase = "run" /\ phase' = "run" /\ call[t] = Idle /\ ~completed[n]
      /\ UNCHANGED <<len, deps, remaining, released>>
  BY DEF BeginComplete, FirstToComplete
<1>2. completed' = [completed EXCEPT ![n] = TRUE]
      /\ call' = [call EXCEPT ![t] = [node |-> n, todo |-> Dependents(n)]]
  BY DEF BeginComplete
<1>3. Dependents(n) \subseteq Node /\ Dependents(n)' = Dependents(n)
  BY <1>1, NodeFacts DEF Dependents, TypeOK, Node
<1>4. TypeOK' /\ Backward' /\ Building'
  BY <1>1, <1>2, <1>3 DEF TypeOK, Backward, Building
<1>5. CallsOK'
  BY <1>1, <1>2, <1>3 DEF CallsOK, CallOK, TypeOK, Dependents, Idle
<1>6. \A u \in Threads : call[u].node # n
  BY <1>1, NodeFacts DEF CallsOK, CallOK, Idle
<1>7. OneCaller'
  BY <1>1, <1>2, <1>6 DEF OneCaller, TypeOK
<1>8. ASSUME NEW m \in Node PROVE Undone(m)' = Undone(m)
  <2>. SUFFICES ASSUME NEW d \in deps[m] PROVE d \in Undone(m)' <=> d \in Undone(m)
    BY <1>1 DEF Undone
  <2>1. m \in 0 .. len - 1 /\ d \in Node
    BY NodeFacts DEF Backward, TypeOK
  <2>2. CASE d = n
    <3>1. m \in call'[t].todo /\ call'[t].node = d
      BY <2>1, <2>2, <1>2 DEF Dependents, TypeOK
    <3>. QED
      BY <3>1, <2>2, <1>1 DEF Undone
  <2>3. CASE d # n
    <3>1. completed'[d] = completed[d]
      BY <2>1, <2>3, <1>2 DEF TypeOK
    <3>2. \A u \in Threads : (call'[u].node = d /\ m \in call'[u].todo)
                               <=> (call[u].node = d /\ m \in call[u].todo)
      BY <1>1, <1>2, <2>1, <2>3, NodeFacts DEF TypeOK, Idle
    <3>. QED
      BY <3>1, <3>2, <1>1 DEF Undone
  <2>. QED
    BY <2>2, <2>3
<1>9. Counted' /\ ReleasedWhenDone'
  BY <1>1, <1>8 DEF Counted, ReleasedWhenDone
<1>. QED
  BY <1>4, <1>5, <1>7, <1>9

LEMMA DecrementOneInv ==
  ASSUME IInv, NEW t \in Threads, NEW m \in Node, DecrementOne(t, m)
  PROVE  IInv'
<1>. USE DEF IInv, Shape
<1>. DEFINE d == call[t].node
<1>1. /\ m \in call[t].todo
      /\ remaining' = [remaining EXCEPT ![m] = Decremented(@)]
      /\ released' = [released EXCEPT ![m] = IF Releases(remaining[m]) THEN @ + 1 ELSE @]
      /\ call' = [call EXCEPT ![t].todo = @ \ {m}]
      /\ UNCHANGED <<len, deps, completed, phase>>
  BY DEF DecrementOne
<1>2. d \in Node /\ completed[d] /\ d \in deps[m] /\ m < len /\ phase = "run"
  BY <1>1, NodeFacts DEF CallsOK, CallOK, Idle, Dependents, Building, TypeOK
<1>3. d \in Undone(m)
  BY <1>1, <1>2 DEF Undone
<1>4. \A u \in Threads : u # t => call[u].node # d
  BY <1>2, NodeFacts DEF OneCaller
<1>5. call'[t] = [node |-> d, todo |-> call[t].todo \ {m}]
      /\ \A u \in Threads : u # t => call'[u] = call[u]
  BY <1>1 DEF TypeOK
<1>6. Undone(m)' = Undone(m) \ {d}
  <2>. SUFFICES ASSUME NEW e \in deps[m]
                PROVE  e \in Undone(m)' <=> e \in Undone(m) /\ e # d
    BY <1>1 DEF Undone
  <2>1. CASE e = d
    BY <2>1, <1>1, <1>2, <1>4, <1>5 DEF Undone
  <2>2. CASE e # d
    BY <2>2, <1>1, <1>5 DEF Undone
  <2>. QED
    BY <2>1, <2>2
<1>7. ASSUME NEW n \in Node, n # m PROVE Undone(n)' = Undone(n)
  <2>1. \A u \in Threads : call'[u].node = call[u].node
                             /\ (n \in call'[u].todo <=> n \in call[u].todo)
    BY <1>5, <1>7
  <2>. QED
    BY <2>1, <1>1 DEF Undone
<1>8. /\ Cardinality(Undone(m)) > 0
      /\ Cardinality(Undone(m)') = Cardinality(Undone(m)) - 1
      /\ Cardinality(Undone(m)) \in 0 .. Width - 1
  BY <1>3, <1>6, OneLess, UndoneIsDeps, CountNodes
<1>9. Decremented(remaining[m]) = remaining[m] - 1 /\ remaining[m] = Cardinality(Undone(m))
  BY <1>8 DEF Decremented, Counted
<1>10. TypeOK'
  <2>1. remaining[m] - 1 \in 0 .. Width - 1
    BY <1>8, <1>9, NodeFacts
  <2>2. remaining' \in [Node -> 0 .. Width - 1]
    BY <1>1, <1>9, <2>1 DEF TypeOK
  <2>3. released' \in [Node -> Nat]
    BY <1>1 DEF TypeOK
  <2>4. call' \in [Threads -> [node : Node \cup {NoNode}, todo : SUBSET Node]]
    BY <1>1 DEF TypeOK
  <2>. QED
    BY <2>2, <2>3, <2>4, <1>1 DEF TypeOK
<1>11. Backward' /\ Building'
  BY <1>1, <1>2 DEF Backward, Building
<1>12. CallsOK'
  <2>. SUFFICES ASSUME NEW u \in Threads PROVE CallOK(u)'
    BY DEF CallsOK
  <2>1. Dependents(d)' = Dependents(d) /\ \A n \in Node : Dependents(n)' = Dependents(n)
    BY <1>1 DEF Dependents
  <2>2. CASE u = t
    BY <2>1, <2>2, <1>1, <1>2, <1>5, NodeFacts DEF CallsOK, CallOK, Idle
  <2>3. CASE u # t
    BY <2>1, <2>3, <1>1, <1>5 DEF CallsOK, CallOK
  <2>. QED
    BY <2>2, <2>3
<1>13. OneCaller'
  BY <1>5 DEF OneCaller
<1>14. Counted'
  <2>. SUFFICES ASSUME NEW n \in Node PROVE remaining'[n] = Cardinality(Undone(n)')
    BY DEF Counted
  <2>1. CASE n = m
    BY <2>1, <1>1, <1>8, <1>9 DEF TypeOK
  <2>2. CASE n # m
    BY <2>2, <1>1, <1>7 DEF TypeOK, Counted
  <2>. QED
    BY <2>1, <2>2
<1>15. ReleasedWhenDone'
  <2>. SUFFICES ASSUME NEW n \in Node
                PROVE  released'[n] = IF n < len /\ Undone(n)' = {} THEN 1 ELSE 0
    BY <1>1 DEF ReleasedWhenDone
  <2>1. CASE n # m
    BY <2>1, <1>1, <1>2, <1>7 DEF ReleasedWhenDone, TypeOK
  <2>2. CASE n = m
    <3>1. released[m] = 0
      BY <1>2, <1>3 DEF ReleasedWhenDone
    <3>2. Undone(m)' = {} <=> Cardinality(Undone(m)) = 1
      <4>1. Undone(m)' \in SUBSET Node
        BY <1>6, UndoneIsDeps
      <4>2. Cardinality(Undone(m)') = 0 <=> Undone(m)' = {}
        BY <4>1, CountNodes
      <4>. QED
        BY <4>2, <1>8
    <3>3. released'[m] = IF Cardinality(Undone(m)) = 1 THEN 1 ELSE 0
      BY <3>1, <1>1, <1>9 DEF Releases, TypeOK
    <3>. QED
      BY <2>2, <3>2, <3>3, <1>2
  <2>. QED
    BY <2>1, <2>2
<1>. QED
  BY <1>10, <1>11, <1>12, <1>13, <1>14, <1>15

LEMMA ReturnInv ==
  ASSUME IInv, NEW t \in Threads, Return(t)
  PROVE  IInv'
<1>. USE DEF IInv, Shape
<1>1. /\ call[t].todo = {} /\ call' = [call EXCEPT ![t] = Idle]
      /\ UNCHANGED <<len, deps, remaining, completed, released, phase>>
  BY DEF Return
<1>2. TypeOK' /\ Backward' /\ Building'
  BY <1>1 DEF TypeOK, Backward, Building, Idle
<1>3. CallsOK' /\ OneCaller'
  BY <1>1 DEF CallsOK, CallOK, OneCaller, TypeOK, Dependents, Idle
<1>4. ASSUME NEW n \in Node PROVE Undone(n)' = Undone(n)
  BY <1>1 DEF Undone, TypeOK, Idle
<1>5. Counted' /\ ReleasedWhenDone'
  BY <1>1, <1>4 DEF Counted, ReleasedWhenDone
<1>. QED
  BY <1>2, <1>3, <1>5

LEMMA NextInv == IInv /\ [Next]_vars => IInv'
<1>. SUFFICES ASSUME IInv, [Next]_vars PROVE IInv'
  OBVIOUS
<1>1. CASE UNCHANGED vars
  BY <1>1 DEF vars, IInv, Shape, TypeOK, Backward, CallsOK, CallOK, OneCaller, Building,
              Counted, ReleasedWhenDone, Undone, Dependents
<1>2. CASE Next
  BY <1>2, AddNodeInv, StartInv, BeginCompleteInv, DecrementOneInv, ReturnInv DEF Next
<1>. QED
  BY <1>1, <1>2

(* The counter of every node counts its unfinished dependencies, in every    *)
(* reachable state (Node::remaining_deps).                                   *)
THEOREM Invariance == Spec => []IInv
BY InitInv, NextInv, PTL DEF Spec
----------------------------------------------------------------------------
(* The types hold, whatever the number of threads. *)
THEOREM TypeCorrect == Spec => []TypeOK
<1>1. IInv => TypeOK
  BY DEF IInv, Shape
<1>. QED
  BY <1>1, Invariance, PTL

(* complete() hands out no node twice (COOK-400). *)
THEOREM ReleasedOnceCorrect == Spec => []ReleasedOnce
<1>1. IInv => ReleasedOnce
  BY DEF IInv, Shape, TypeOK, Building, ReleasedWhenDone, ReleasedOnce
<1>. QED
  BY <1>1, Invariance, PTL

(* complete() hands out no node early: all its dependencies are completed.   *)
THEOREM ReleasedAfterDepsCorrect == Spec => []ReleasedAfterDeps
<1>1. IInv => ReleasedAfterDeps
  BY DEF IInv, Shape, TypeOK, Building, ReleasedWhenDone, ReleasedAfterDeps, Undone
<1>. QED
  BY <1>1, Invariance, PTL

(* complete() loses no release, however the decrements of its callers        *)
(* interleave.                                                               *)
THEOREM NoLostReleaseCorrect == Spec => []NoLostRelease
<1>1. IInv => NoLostRelease
  <2>. SUFFICES ASSUME IInv, phase = "run", \A t \in Threads : call[t] = Idle,
                       NEW n \in 0 .. len - 1, \A d \in deps[n] : completed[d]
                PROVE  released[n] = 1
    BY DEF NoLostRelease
  <2>1. n \in Node /\ n < len
    BY NodeFacts DEF IInv, Shape, TypeOK, Node
  <2>2. Undone(n) = {}
    BY DEF Undone, Idle
  <2>. QED
    BY <2>1, <2>2 DEF IInv, ReleasedWhenDone
<1>. QED
  BY <1>1, Invariance, PTL

(* No counter wraps below zero. *)
THEOREM NeverWrapsCorrect == Spec => []NeverWraps
<1>1. IInv => NeverWraps
  <2>. SUFFICES ASSUME IInv, NEW n \in Node PROVE remaining[n] <= Cardinality(deps[n])
    BY DEF NeverWraps
  <2>1. Undone(n) \subseteq deps[n] /\ deps[n] \in SUBSET Node
    BY UndoneIsDeps DEF IInv, Shape, TypeOK
  <2>2. Cardinality(Undone(n)) <= Cardinality(deps[n])
    BY <2>1, CountNodes, FS_Subset
  <2>. QED
    BY <2>2 DEF IInv, Counted
<1>. QED
  BY <1>1, Invariance, PTL

(* Every node is handed out exactly once, after its last dependency, and no  *)
(* counter wraps.                                                            *)
THEOREM ReleasedRightCorrect == Spec => []ReleasedRight
<1>1. ReleasedOnce /\ ReleasedAfterDeps /\ NoLostRelease /\ NeverWraps => ReleasedRight
  BY DEF ReleasedRight
<1>. QED
  BY <1>1, ReleasedOnceCorrect, ReleasedAfterDepsCorrect, NoLostReleaseCorrect,
     NeverWrapsCorrect, PTL
============================================================================
