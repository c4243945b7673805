--------------------------- MODULE BuildContract ---------------------------
(***************************************************************************)
(* What one invocation of the build promises about its work units, with no *)
(* pool, no queues and no event stream: a unit starts only when everything *)
(* it depends on has succeeded, it settles once, and a failure blocks      *)
(* exactly what lies downstream of it.  Executor.tla implements it.        *)
(***************************************************************************)
CONSTANTS
  Node,       \* the work units
  Recipes     \* the recipes they belong to

VARIABLES
  deps,       \* deps[n]: the units n depends on
  recipe,     \* recipe[n]: the recipe n belongs to
  drained,    \* the units a chore runs in its one drain window
  fate        \* fate[n]: what has become of n

vars == <<deps, recipe, drained, fate>>

Fates == {"waiting", "running", "ok", "failed", "blocked"}
Settled == {"ok", "failed", "blocked"}

(* Everything downstream of a unit of S, by any number of dependencies. *)
Downstream(S) ==
  {m \in Node :
     \A C \in SUBSET Node :
       (\A k \in Node : deps[k] \cap (S \cup C) # {} => k \in C) => m \in C}

DepsOk(n) == \A d \in deps[n] : fate[d] = "ok"

Init ==
  /\ deps \in [Node -> SUBSET Node]
  /\ recipe \in [Node -> Recipes]
  /\ drained \in SUBSET Node
  /\ fate = [n \in Node |-> "waiting"]

(* The body of n is handed to a worker or to the terminal. *)
StartUnit(n) ==
  /\ fate[n] = "waiting" /\ DepsOk(n)
  /\ fate' = [fate EXCEPT ![n] = "running"]
  /\ UNCHANGED <<deps, recipe, drained>>

(* n succeeds: after running, or served without running. *)
Succeed(n) ==
  /\ fate[n] = "running" \/ (fate[n] = "waiting" /\ DepsOk(n))
  /\ fate' = [fate EXCEPT ![n] = "ok"]
  /\ UNCHANGED <<deps, recipe, drained>>

(* n fails.  Nothing downstream has started, and all of it is blocked in the *)
(* same step.  A failing chore step also ends its drain window: other steps  *)
(* of the same chore, none of which has started, are blocked with it.        *)
Fail(n, tail) ==
  /\ fate[n] = "running" \/ (fate[n] = "waiting" /\ DepsOk(n))
  /\ \A m \in tail : m # n /\ m \in drained /\ n \in drained /\ recipe[m] = recipe[n]
  /\ LET out == tail \cup Downstream({n} \cup tail)
     IN /\ \A m \in out : fate[m] \in {"waiting", "blocked"}
        /\ fate' = [m \in Node |-> IF m = n THEN "failed"
                                   ELSE IF m \in out THEN "blocked"
                                   ELSE fate[m]]
  /\ UNCHANGED <<deps, recipe, drained>>

Next ==
  \E n \in Node :
    \/ StartUnit(n)
    \/ Succeed(n)
    \/ \E tail \in SUBSET Node : Fail(n, tail)

Spec == Init /\ [][Next]_vars
============================================================================
