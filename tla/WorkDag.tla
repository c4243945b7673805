------------------------------ MODULE WorkDag ------------------------------
(***************************************************************************)
(* The dependency graph of cli/crates/cook-dag: nodes numbered in the      *)
(* order they are added, a counter of unfinished dependencies per node and *)
(* a completion flag per node, both atomics.  One thread builds the graph; *)
(* after that any number of threads may call complete() at the same time,  *)
(* also on the same node.  complete() is modelled at the grain of its      *)
(* atomic operations: the swap of the flag, then one fetch_sub for each    *)
(* dependent.                                                              *)
(***************************************************************************)
EXTENDS Integers, FiniteSets

CONSTANTS
  MaxNodes,   \* bound on the nodes add_node appends
  Threads,    \* the threads that call complete()
  Width,      \* counter values before an AtomicUsize wraps (2^64 in the build)
  NoNode      \* what an idle thread is completing

ASSUME SizeAssumption ==
  /\ MaxNodes \in Nat \ {0}
  /\ Width \in Nat /\ Width > MaxNodes
ASSUME NoNodeAssumption == NoNode \notin Nat

Node == 0 .. MaxNodes - 1

VARIABLES
  len,        \* nodes added so far: ids 0 .. len-1 exist
  deps,       \* deps[n]: the ids n depends on, without duplicates
  remaining,  \* remaining[n]: the AtomicUsize counting unfinished dependencies
  completed,  \* completed[n]: the AtomicBool set by the first complete(n)
  call,       \* call[t]: the node thread t completes, and the dependents left
  released,   \* history: how often n was handed to a caller as ready
  phase       \* "build" while the builder owns the graph, then "run"

vars == <<len, deps, remaining, completed, call, released, phase>>

Idle == [node |-> NoNode, todo |-> {}]

Init ==
  /\ len = 0
  /\ deps = [n \in Node |-> {}]
  /\ remaining = [n \in Node |-> 0]
  /\ completed = [n \in Node |-> FALSE]
  /\ call = [t \in Threads |-> Idle]
  /\ released = [n \in Node |-> 0]
  /\ phase = "build"

----------------------------------------------------------------------------
(* Building.  add_node fails with DependencyOutOfRange, and adds nothing, when *)
(* a dependency id is not smaller than the id the node would get.            *)

Accepts(ds) == ds \subseteq 0 .. len - 1

AddNode(ds) ==
  /\ phase = "build"
  /\ len < MaxNodes
  /\ Accepts(ds)
  /\ deps' = [deps EXCEPT ![len] = ds]
  /\ remaining' = [remaining EXCEPT ![len] = Cardinality(ds)]
  /\ len' = len + 1
  /\ UNCHANGED <<completed, call, released, phase>>

(* initial_ready: the nodes whose counter is zero before anything completed. *)
InitialReady == {n \in 0 .. len - 1 : remaining[n] = 0}

Start ==
  /\ phase = "build"
  /\ phase' = "run"
  /\ released' = [n \in Node |-> IF n \in InitialReady THEN 1 ELSE 0]
  /\ UNCHANGED <<len, deps, remaining, completed, call>>

----------------------------------------------------------------------------
(* Completing. *)

Dependents(n) == {m \in 0 .. len - 1 : n \in deps[m]}

(* Variants of the operators below, each with one plausible mistake. *)
FirstToCompleteAlways(n) == TRUE
ReleasesAtZero(prev) == prev = 0
ReleasesAtTwo(prev) == prev \in {1, 2}
DecrementedTwice(x) == x - 2

(* completed.swap(true): only the first caller of complete(n) goes on. *)
FirstToComplete(n) == ~completed[n]

(* fetch_sub(1) on an unsigned counter. *)
Decremented(x) == IF x = 0 THEN Width - 1 ELSE x - 1

(* fetch_sub returns the previous value: 1 means the counter is now zero. *)
Releases(prev) == prev = 1

BeginComplete(t, n) ==
  /\ phase = "run"
  /\ call[t] = Idle
  /\ n < len
  /\ FirstToComplete(n)
  /\ completed' = [completed EXCEPT ![n] = TRUE]
  /\ call' = [call EXCEPT ![t] = [node |-> n, todo |-> Dependents(n)]]
  /\ UNCHANGED <<len, deps, remaining, released, phase>>

DecrementOne(t, m) ==
  /\ m \in call[t].todo
  /\ \A k \in call[t].todo : m <= k
  /\ remaining' = [remaining EXCEPT ![m] = Decremented(@)]
  /\ released' = [released EXCEPT ![m] = IF Releases(remaining[m]) THEN @ + 1 ELSE @]
  /\ call' = [call EXCEPT ![t].todo = @ \ {m}]
  /\ UNCHANGED <<len, deps, completed, phase>>

Return(t) ==
  /\ call[t].node # NoNode
  /\ call[t].todo = {}
  /\ call' = [call EXCEPT ![t] = Idle]
  /\ UNCHANGED <<len, deps, remaining, completed, released, phase>>

Next ==
  \/ \E ds \in SUBSET Node : AddNode(ds)
  \/ Start
  \/ \E t \in Threads, n \in Node : BeginComplete(t, n)
  \/ \E t \in Threads, m \in Node : DecrementOne(t, m)
  \/ \E t \in Threads : Return(t)

Spec == Init /\ [][Next]_vars

----------------------------------------------------------------------------
(* Properties. *)

(* Every variable has its type; the counter stays a counter of the build's  *)
(* width (Node::remaining_deps).                                            *)
TypeOK ==
  /\ len \in 0 .. MaxNodes
  /\ deps \in [Node -> SUBSET Node]
  /\ remaining \in [Node -> 0 .. Width - 1]
  /\ completed \in [Node -> BOOLEAN]
  /\ call \in [Threads -> [node : Node \cup {NoNode}, todo : SUBSET Node]]
  /\ released \in [Node -> Nat]
  /\ phase \in {"build", "run"}

(* A node is handed to a caller at most once, whatever threads race in      *)
(* complete(), on different nodes or on the same one: the guard of          *)
(* complete() that COOK-400 introduced.                                     *)
ReleasedOnce == \A n \in Node : released[n] <= 1

(* A node is handed out only when every dependency has been completed: no   *)
(* interleaving of decrements releases a dependent early.                   *)
ReleasedAfterDeps ==
  \A n \in Node : released[n] > 0 => \A d \in deps[n] : completed[d]

(* No release is lost: once the calls that were running have returned, a    *)
(* node whose dependencies are all completed has been handed out.           *)
NoLostRelease ==
  (phase = "run" /\ \A t \in Threads : call[t] = Idle) =>
    \A n \in 0 .. len - 1 : (\A d \in deps[n] : completed[d]) => released[n] = 1

(* A counter never wraps below zero, the failure COOK-400 repaired: it      *)
(* stays within the number of dependencies of its node.                     *)
NeverWraps == \A n \in Node : remaining[n] <= Cardinality(deps[n])

(* What complete() owes its callers: every node handed out exactly once,     *)
(* after the last of its dependencies, by counters that never wrap.          *)
ReleasedRight == ReleasedOnce /\ ReleasedAfterDeps /\ NoLostRelease /\ NeverWraps

============================================================================
