----------------------------- MODULE MCRegister -----------------------------
(* Cookfiles of two or three recipes, each aimed at one of the ways in which *)
(* bodies nest: forcing, chores and fan-outs a force rescues or cannot,      *)
(* probes read and declared by bodies, capturing in step groups, and recipes *)
(* registered late.                                                          *)
EXTENDS Register, TLC

Names == {"a", "b", "c"}
Keys == {"k1", "k2"}
Paths == {"p", "q", "out"}
Members == {"m1"}

R(n, requires) ==
  [name |-> n, chore |-> FALSE, requires |-> requires, params |-> <<>>, source |-> NoKey]
C(n, requires, params) == [R(n, requires) EXCEPT !.chore = TRUE, !.params = params]
F(n, requires, k) == [R(n, requires) EXCEPT !.source = k]

Unprobed == [k \in {} |-> [requires |-> {}, files |-> {}]]
Probed == [k \in Keys |-> [requires |-> IF k = "k2" THEN {"k1"} ELSE {}, files |-> {"p"}]]

Call(outs, cache) ==
  [outs |-> outs, ins |-> {}, prior |-> FALSE, cache |-> cache, test |-> FALSE, seal |-> {},
   probes |-> {}, after |-> {}, member |-> NoMember, flaw |-> "none",
   body |-> {"command"}, interactive |-> FALSE, found |-> {}]

Cook(list, target, api) ==
  [recipes |-> list, probes |-> Unprobed, late |-> {}, hidden |-> Unprobed,
   target |-> target, argc |-> 0, seeds |-> {}, calls |-> {}, api |-> api]

(* Who requires whom statically is varied, who forces whom is left to Lua. *)
Forcing ==
  {Cook(<<R("a", ra), R("b", rb), C("c", rc, ps)>>, t, {"require", "order"}) :
     ra \in {{}, {"b"}, {"c"}}, rb \in {{}, {"c"}}, rc \in {{}, {"a"}}, t \in {"a", "b"},
     ps \in {<<>>, <<"required">>}}

(* No target, or a chore as the target, or a recipe given arguments. *)
Requests ==
  {[Cook(<<R("a", {}), C("b", {"a"}, ps), C("c", {"b"}, <<>>)>>, t, {"import", "complete"})
      EXCEPT !.argc = n, !.seeds = s] :
     ps \in {<<"defaulted", "required">>, <<"star">>}, t \in {"a", "b", NoName},
     n \in {0, 1, 2}, s \in {{}, {"c"}}}

(* A fan-out over a probe, reachable or not, and one over a key nobody       *)
(* declares; k2 requires k1, and a body or a finalizer may read them.        *)
FanOuts ==
  {[Cook(<<F("a", {}, k), R("b", rb)>>, t, {"require", "read", "complete", "raise"})
      EXCEPT !.probes = ps] :
     k \in Keys, rb \in {{}, {"a"}}, t \in {"a", "b"}, ps \in {Unprobed, Probed}}

(* Probes declared by bodies and used by units of other bodies. *)
BodyProbes ==
  {[Cook(<<R("a", {}), R("b", rb)>>, "b", {"probe", "read", "complete"})
      EXCEPT !.hidden = Probed,
             !.calls = {[Call({"p"}, TRUE) EXCEPT !.found = {"k1"}], Call({"p"}, FALSE)}] :
     rb \in {{}, {"a"}}}

(* A probe a finalizer reads, over a file a unit makes. *)
Finalizing ==
  {[Cook(<<R("a", {})>>, "a", {"read", "complete"})
      EXCEPT !.probes = Probed, !.calls = {Call({"p"}, TRUE)}]}

(* Units in step groups: members, what a group leaves behind, refusals late  *)
(* in the call, orders between units.                                        *)
Capturing ==
  {[Cook(<<R("a", {}), R("b", {"a"})>>, "b", api)
      EXCEPT !.calls = {[Call({"p"}, TRUE) EXCEPT !.member = "m1"],
                        [Call({}, TRUE) EXCEPT !.prior = TRUE, !.after = {"p"}],
                        [Call({o}, FALSE) EXCEPT !.test = TRUE, !.body = {"lua"}]}] :
     o \in {"q", "out"},
     api \in {{"group", "output", "exec"}, {"group", "raise", "require"}}}

(* Recipes a body registers: a new one, one of a name that is taken, a chore *)
(* the target requires, which the seed loop skips, and one through which a   *)
(* force is pushed down to recipes that ran.                                 *)
Late ==
  {[Cook(<<R("a", ra), R("b", {})>>, "a", {"late", "require", "import", "complete"})
      EXCEPT !.late = {R("c", {"a"}), R("b", {"a"})}] : ra \in {{}, {"c"}}}
  \cup {[Cook(<<R("a", {"c"}), R("b", {})>>, "a", {"late", "require"})
          EXCEPT !.late = {C("c", {}, <<>>)}],
        [Cook(<<R("a", {"b"}), R("b", {})>>, "a", {"late", "require", "raise"})
          EXCEPT !.late = {R("c", {"a", "b"}), R("c", {"b"})}]}

(* What the checks before the first body refuse. *)
Refused ==
  {Cook(<<R("a", {"b"}), R("b", {"a"})>>, "a", {}),
   Cook(<<R("a", {}), C("a", {}, <<>>)>>, "a", {}),
   [Cook(<<R("a", {})>>, "a", {}) EXCEPT
      !.probes = [k \in Keys |-> [requires |-> Keys \ {k}, files |-> {}]]]}

AllCookfiles ==
  Forcing \cup Requests \cup FanOuts \cup BodyProbes \cup Finalizing \cup Capturing \cup Late \cup Refused
=============================================================================
