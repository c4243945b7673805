---------------------------- MODULE MCBuildPlan ----------------------------
(* Small workspaces: three recipes in one or two Cookfiles, two declared     *)
(* probes of which one requires the other, and bodies that between them use  *)
(* every kind of edge.                                                       *)
EXTENDS BuildPlanProofs, TLC

Names == {"a", "b", "c"}
Files == {"main", "lib"}
Keys == {"k1", "k2", "k3"}
Paths == {"p", "q", "dir"}
CoversDir == [t \in {"dir"} |-> {"q"}]

U(probe, group, needs, outs, after, fine) ==
  [probe |-> probe, group |-> group, needs |-> needs, ins |-> {}, outs |-> outs,
   after |-> after, fine |-> fine, empty |-> FALSE]

Cmd == U(NoKey, 0, {}, {}, {}, {})
Probe(k) == U(k, 0, {}, {}, {}, {})
Reading(ks) == U(NoKey, 0, ks, {}, {}, {})
Member(g) == U(NoKey, g, {}, {}, {}, {})
Fine(ds) == U(NoKey, 0, {}, {}, {}, ds)
Nop == [Cmd EXCEPT !.empty = TRUE]
Writing(p) == [Cmd EXCEPT !.outs = {p}]
Using(p, ds) == [Fine(ds) EXCEPT !.ins = {p}]
Making == U(NoKey, 1, {}, {"p"}, {}, {})
Following == U(NoKey, 1, {}, {}, {"p"}, {})

(* Bodies that use no probe, bodies that do, and bodies a plan refuses. *)
Plain ==
  {<<>>, <<Cmd, Cmd>>, <<Member(1), Member(1), Cmd>>,
   <<Cmd, Member(1), Member(1), Member(1)>>, <<Making, Following, Member(1)>>,
   <<Member(1), Member(1), Member(2), Member(2)>>, <<Member(1), Cmd, Member(1), Cmd>>}
Probing ==
  {<<Reading({"k1"})>>, <<Cmd, Reading({"k1", "k2"})>>, <<Probe("k1")>>,
   <<Reading({"k2"}), Probe("k1")>>, <<Probe("k2"), Reading({"k2"}), Probe("k1")>>}
Refused == {<<Following, Making>>, <<Reading({"k3"})>>, <<Making, Making, Following>>}
Referring(ds) == {<<Fine(ds), Cmd>>, <<Cmd, Fine(ds), Reading({"k1"})>>}

Recipe(file, requires, units) == [file |-> file, requires |-> requires, units |-> units]

(* One registry for both Cookfiles; a body declares a key at most once in a  *)
(* Cookfile.                                                                 *)
W(fc, ra, rb, rc, ua, ub, uc, targets, affected, changed, command) ==
  [names |-> Names,
   recipe |-> ("a" :> Recipe("main", ra, ua)) @@ ("b" :> Recipe("main", rb, ub))
                @@ ("c" :> Recipe(fc, rc, uc)),
   declared |-> [f \in Files |-> {"k1", "k2"}],
   upstream |-> [f \in Files |-> [k \in Keys |-> IF k = "k2" THEN {"k1"} ELSE {}]],
   targets |-> targets, affected |-> affected, changed |-> changed, command |-> command]

KeysOf(units) == {units[i].probe : i \in DOMAIN units} \ {NoKey}

DeclaredOnce(w) ==
  \A r, s \in Names :
    r # s /\ w.recipe[r].file = w.recipe[s].file =>
      KeysOf(w.recipe[r].units) \cap KeysOf(w.recipe[s].units) = {}

(* Where c is in another Cookfile its probes are others. *)
LastBodies ==
  ({"main"} \X (Probing \cup {<<Cmd, Cmd>>} \cup Referring({"a"}) \cup Referring({"b"})))
    \cup ({"lib"} \X (Probing \cup {<<Cmd, Cmd>>}))

Wirings ==
  {w \in {W(fu[1], {}, rb, rc, ua, ub, fu[2], {"b", "c"}, FALSE, {}, "run") :
            rb \in SUBSET {"a"}, rc \in SUBSET {"a", "b"}, fu \in LastBodies,
            ua \in Plain \cup Probing,
            ub \in Probing \cup {<<>>, <<Member(1), Member(1)>>} \cup Referring({"a"})} :
     DeclaredOnce(w)}

Restrictions == {<<S, "run">> : S \in SUBSET Names} \cup {<<{"a"}, "test">>}

Slices ==
  {W("main", {}, rb, rc, <<Cmd>>, ub, uc, {"c"}, TRUE, to[1], to[2]) :
     rb \in SUBSET {"a"}, rc \in SUBSET {"a", "b"}, to \in Restrictions,
     ub \in {<<>>, <<Cmd, Cmd>>, <<Fine({"a"})>>},
     uc \in {<<Cmd>>, <<Fine({"b"}), Reading({"k2"})>>}}

Broken ==
  {W("main", ra, {}, {"a"}, <<Cmd>>, <<Cmd>>, <<Cmd>>, {"c"}, FALSE, {}, "run") :
     ra \in {{"c"}, {"b"}, {"a"}}}
    \cup {W("main", {}, {"a"}, {"b"}, <<Cmd>>, <<Cmd>>, uc, {"c"}, FALSE, {}, "run") :
             uc \in Refused}
    \cup {[W("main", {}, {"a"}, {"b"}, <<Cmd>>, <<Cmd>>, <<Cmd>>, {"c"}, FALSE, {}, "run")
             EXCEPT !.names = {"b", "c"}]}

(* Recipes that share paths: a writes a file and claims a directory, and b   *)
(* and c read or claim as well.                                              *)
Shared ==
  {W(fc, {}, rb, rc, <<Writing("p"), Nop, Writing("dir")>>, ub, uc, targets, FALSE, {}, "run") :
     fc \in Files, rb \in {{}, {"a"}, {"c"}}, rc \in {{}, {"a"}},
     ub \in {<<Cmd>>, <<Using("p", {})>>, <<Cmd, Using("p", {"a"})>>,
              <<Using("p", {}), Fine({"a"})>>, <<Fine({"a"}), Using("p", {})>>,
              <<Using("q", {})>>, <<Writing("dir")>>},
     uc \in {<<>>, <<Using("p", {})>>, <<Fine({"a"}), Cmd>>, <<Writing("p")>>},
     targets \in {{"b"}, Names}}

(* Probes that require a key nobody declares. *)
Undeclared ==
  {[W("main", {}, {"a"}, {"b"}, ua, <<Cmd, Reading({"k1", "k2"})>>, <<Cmd>>, {"c"}, FALSE, {}, "run")
      EXCEPT !.upstream = [f \in Files |-> [k \in Keys |-> IF k = "k2" THEN {"k1", "k3"} ELSE {}]]] :
     ua \in Plain \cup Probing}

AllWorkspaces == Wirings \cup Slices \cup Broken \cup Shared \cup Undeclared
============================================================================
