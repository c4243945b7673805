----------------------------- MODULE MCExecutor -----------------------------
(***************************************************************************)
(* Work DAGs the executor is checked on.  The named ones have the shapes   *)
(* unit_graph::plan produces for the Cookfile sketched above each; Dags is *)
(* every DAG of three units over the kinds that are not chore steps, and   *)
(* SmallChores the chores three units make.                                *)
(***************************************************************************)
EXTENDS ExecutorProofs

Plan(d, k, r, p) ==
  [deps |-> [n \in Node |-> d[n + 1]], kind |-> [n \in Node |-> k[n + 1]],
   recipe |-> [n \in Node |-> r[n + 1]], pinned |-> p]

(* recipe lib: a probe, two objects that use it; recipe app: a test of both  *)
(* objects, a unit gated by that test, and a second test.                    *)
Mixed ==
  Plan(<<{}, {0}, {0}, {1, 2}, {3}, {1}>>,
       <<"probe", "cook", "cook", "test", "cook", "test">>,
       <<"lib", "lib", "lib", "app", "app", "app">>, {2})

(* Interactive units between cached, built and tested ones. *)
Interactives ==
  Plan(<<{}, {}, {0}, {1, 2}, {}, {3}>>,
       <<"presatisfied", "cook", "interactive", "cook", "interactive", "test">>,
       <<"lib", "lib", "lib", "app", "app", "app">>, {})

(* chore ship: checks lib, a body of three steps; recipe app depends on it.  *)
Ship(a, b, c) ==
  Plan(<<{}, {}, {0, 1}, {2}, {3}, {4}>>,
       <<"test", "cook", a, b, c, "cook">>,
       <<"checks", "lib", "ship", "ship", "ship", "app">>, {})

(* A chore whose first two steps form a step group, a second chore that      *)
(* depends on it, and in the second chore a step that names a test recipe.   *)
TwoChores(a, b, c) ==
  Plan(<<{}, {}, {0, 1}, {2}, {}, {3, 4}>>,
       <<a, b, "chore", c, "test", "chore">>,
       <<"seed", "seed", "seed", "ship", "checks", "ship">>, {})

Steps == {"chore", "choreLua"}

Shapes == {Mixed, Interactives}
ChoreShapes ==
  {Ship(a, b, c) : a, b, c \in Steps} \cup {TwoChores(a, b, c) : a, b, c \in Steps}

EveryShape == Shapes \cup ChoreShapes

Dags ==
  {Plan(<<{}, d1, d2>>, <<k0, k1, k2>>, <<"lib", "lib", "app">>, {0}) :
     d1 \in SUBSET {0}, d2 \in SUBSET {0, 1},
     k0, k1, k2 \in {"presatisfied", "probe", "cook", "test", "interactive"}}

(* Chores of up to three steps: behind a unit, before one, in a step group,  *)
(* two chores in a row, and one whose second step alone waits for a test.    *)
SmallChores ==
  {Plan(<<{}, {0}, d>>, <<k, a, b>>, <<"lib", "app", "app">>, {}) :
     d \in {{0, 1}, {0}, {1}}, k \in {"test", "cook", "chore"}, a, b \in Steps}
    \cup {Plan(<<{}, d, {0, 1}>>, <<a, b, k>>, <<"lib", "lib", "app">>, {}) :
             d \in {{}, {0}}, k \in {"test", "cook", "chore"}, a, b \in Steps}
    \cup {Plan(<<{}, {}, {0, 1}>>, <<"test", a, b>>, <<"lib", "app", "app">>, {}) :
             a, b \in Steps}

EveryDag == Dags \cup SmallChores

(* The plans of the runs meet the hypothesis of OutcomeToldCorrect. *)
ASSUME RunsInOrder == StepsInOrder
============================================================================
